---- MODULE Spec2Model ----
(***************************************************************************)
(* Model of the team health analyzer of ado-cli                            *)
(* (src/commands/team/health-analyzer.ts).                                 *)
(*                                                                         *)
(* Representation.                                                         *)
(*   - A JavaScript string is a sequence of one-character strings, so that *)
(*     toLowerCase is computed character by character.                     *)
(*   - An optional value (a field that may be undefined) is a set with at  *)
(*     most one element: {} is undefined, {v} is the value v.              *)
(*   - A date field holds the milliseconds `new Date(field).getTime()`     *)
(*     yields; the clock is in milliseconds too.                           *)
(*   - A work item carries `id`, its position in the fetched list: two     *)
(*     items of a list are two objects even when all their fields agree.   *)
(*   - An alert message is the tuple of the values the template string     *)
(*     interpolates.                                                       *)
(***************************************************************************)
EXTENDS Integers, Sequences, FiniteSets, TLC

VARIABLES
    workItems,        \* WorkItem[] fetched for the run
    team,             \* TeamConfig: name and ordered members
    thresholds,       \* HealthAnalyzer.thresholds
    stateCategories,  \* HealthAnalyzer.stateCategories
    clock,            \* the system clock, in ms
    result,           \* outcome of the last analyzeTeamHealth call
    prev,             \* outcome of the call before the last one
    output,           \* what the formatter has printed or returned
    stored,           \* the persisted team config file, if there is one
    last              \* what the last team command did

vars == <<workItems, team, thresholds, stateCategories, clock, result, prev, output,
          stored, last>>

----------------------------------------------------------------------------
(* Optional values *)

None == {}
Some(v) == {v}
Get(o) == CHOOSE v \in o : TRUE

----------------------------------------------------------------------------
(* Strings *)

UpperToLower ==
    [c \in {"A","B","C","D","E","F","G","H","I","J","K","L","M",
            "N","O","P","Q","R","S","T","U","V","W","X","Y","Z"} |->
        CASE c = "A" -> "a" [] c = "B" -> "b" [] c = "C" -> "c" [] c = "D" -> "d"
          [] c = "E" -> "e" [] c = "F" -> "f" [] c = "G" -> "g" [] c = "H" -> "h"
          [] c = "I" -> "i" [] c = "J" -> "j" [] c = "K" -> "k" [] c = "L" -> "l"
          [] c = "M" -> "m" [] c = "N" -> "n" [] c = "O" -> "o" [] c = "P" -> "p"
          [] c = "Q" -> "q" [] c = "R" -> "r" [] c = "S" -> "s" [] c = "T" -> "t"
          [] c = "U" -> "u" [] c = "V" -> "v" [] c = "W" -> "w" [] c = "X" -> "x"
          [] c = "Y" -> "y" [] c = "Z" -> "z"]

\* String.prototype.toLowerCase
toLowerCase(s) ==
    [i \in 1..Len(s) |-> IF s[i] \in DOMAIN UpperToLower THEN UpperToLower[s[i]] ELSE s[i]]

\* optional chaining: s?.toLowerCase()
toLowerCaseOpt(o) == IF o = None THEN None ELSE Some(toLowerCase(Get(o)))

\* a === b where a may be undefined and b is a string
StrictEq(o, s) == o /= None /\ Get(o) = s

----------------------------------------------------------------------------
(* Time *)

MsPerDay == 24 * 60 * 60 * 1000

----------------------------------------------------------------------------
(* Sequence helpers *)

RECURSIVE SumSeq(_)
SumSeq(s) == IF s = <<>> THEN 0 ELSE Head(s) + SumSeq(Tail(s))

Min(a, b) == IF a < b THEN a ELSE b
Max(a, b) == IF a > b THEN a ELSE b

\* Array.prototype.includes on work items (object identity: the list position)
Includes(s, wi) == \E i \in 1..Len(s) : s[i].id = wi.id

Ids(s) == {s[i].id : i \in 1..Len(s)}

----------------------------------------------------------------------------
(* Completion check and member matching *)

\* wi.fields['System.State'].toLowerCase() === state.toLowerCase() for some
\* entry of the category; the callback is not run for an empty category.
inCategory(wi, category) ==
    \E i \in 1..Len(category) :
        toLowerCase(Get(wi.state)) = toLowerCase(category[i])

\* the completion check comparing the state as spelled
isCompletedCaseSensitive(wi) ==
    \E i \in 1..Len(stateCategories.completed) :
        Get(wi.state) = stateCategories.completed[i]

isCompleted(wi) == inCategory(wi, stateCategories.completed)

\* the aliases compared with the display name only
matchesMemberAliasByName(assignee, member) ==
    LET email == toLowerCaseOpt(assignee.uniqueName)
        name  == toLowerCaseOpt(assignee.displayName)
    IN  \/ StrictEq(email, toLowerCase(member.email))
        \/ StrictEq(name, toLowerCase(member.name))
        \/ /\ member.aliases /= None
           /\ \E i \in 1..Len(Get(member.aliases)) :
                StrictEq(name, toLowerCase(Get(member.aliases)[i]))

matchesMember(assignee, member) ==
    LET email == toLowerCaseOpt(assignee.uniqueName)
        name  == toLowerCaseOpt(assignee.displayName)
    IN  \/ StrictEq(email, toLowerCase(member.email))
        \/ StrictEq(name, toLowerCase(member.name))
        \/ /\ member.aliases /= None
           /\ \E i \in 1..Len(Get(member.aliases)) :
                \/ StrictEq(email, toLowerCase(Get(member.aliases)[i]))
                \/ StrictEq(name, toLowerCase(Get(member.aliases)[i]))

\* wi.fields['Microsoft.VSTS.Common.Priority'] || 4
priorityOr4(wi) ==
    IF wi.priority = None \/ Get(wi.priority) = 0 THEN 4 ELSE Get(wi.priority)

elapsed(now, wi) == now - wi.changedDate

----------------------------------------------------------------------------
(* Detection rules.  `now` is the value `new Date()` yields inside the rule. *)

Alert(sev, cat, msg, items, member) ==
    [severity |-> sev, category |-> cat, message |-> msg,
     workItems |-> items, member |-> member]

\* stale from the threshold on: >= where the code has >
detectStaleItemsInclusive(items, now) ==
    LET staleThreshold == thresholds.staleDays * 24 * 60 * 60 * 1000
        staleItems == SelectSeq(items, LAMBDA wi :
                          /\ ~isCompleted(wi)
                          /\ elapsed(now, wi) >= staleThreshold)
        highPriorityStale == SelectSeq(staleItems, LAMBDA wi : priorityOr4(wi) <= 2)
        regularStale == SelectSeq(staleItems, LAMBDA wi : priorityOr4(wi) > 2)
    IN  (IF Len(highPriorityStale) > 0
            THEN <<Alert("alert", "stale",
                         <<"high priority stale", Len(highPriorityStale), thresholds.staleDays>>,
                         Some(highPriorityStale), None)>>
            ELSE <<>>)
        \o
        (IF Len(regularStale) > 0
            THEN <<Alert("warning", "stale",
                         <<"not updated", Len(regularStale), thresholds.staleDays>>,
                         Some(regularStale), None)>>
            ELSE <<>>)

detectStaleItems(items, now) ==
    LET staleThreshold == thresholds.staleDays * 24 * 60 * 60 * 1000
        staleItems == SelectSeq(items, LAMBDA wi :
                          /\ ~isCompleted(wi)
                          /\ elapsed(now, wi) > staleThreshold)
        highPriorityStale == SelectSeq(staleItems, LAMBDA wi : priorityOr4(wi) <= 2)
        regularStale == SelectSeq(staleItems, LAMBDA wi : priorityOr4(wi) > 2)
    IN  (IF Len(highPriorityStale) > 0
            THEN <<Alert("alert", "stale",
                         <<"high priority stale", Len(highPriorityStale), thresholds.staleDays>>,
                         Some(highPriorityStale), None)>>
            ELSE <<>>)
        \o
        (IF Len(regularStale) > 0
            THEN <<Alert("warning", "stale",
                         <<"not updated", Len(regularStale), thresholds.staleDays>>,
                         Some(regularStale), None)>>
            ELSE <<>>)

\* the long-blocked limit taken from the configured staleDays
detectBlockedItemsByStaleDays(items, now) ==
    LET blockedItems == SelectSeq(items, LAMBDA wi : inCategory(wi, stateCategories.blocked))
        longBlockedThreshold == thresholds.staleDays * 24 * 60 * 60 * 1000
        longBlocked == SelectSeq(blockedItems, LAMBDA wi :
                           elapsed(now, wi) > longBlockedThreshold)
        recentBlocked == SelectSeq(blockedItems, LAMBDA wi : ~Includes(longBlocked, wi))
    IN  (IF Len(longBlocked) > 0
            THEN <<Alert("alert", "blocked", <<"blocked > 7 days", Len(longBlocked)>>,
                         Some(longBlocked), None)>>
            ELSE <<>>)
        \o
        (IF Len(recentBlocked) > 0
            THEN <<Alert("warning", "blocked", <<"currently blocked", Len(recentBlocked)>>,
                         Some(recentBlocked), None)>>
            ELSE <<>>)

detectBlockedItems(items, now) ==
    LET blockedItems == SelectSeq(items, LAMBDA wi : inCategory(wi, stateCategories.blocked))
        longBlockedThreshold == 7 * 24 * 60 * 60 * 1000
        longBlocked == SelectSeq(blockedItems, LAMBDA wi :
                           elapsed(now, wi) > longBlockedThreshold)
        recentBlocked == SelectSeq(blockedItems, LAMBDA wi : ~Includes(longBlocked, wi))
    IN  (IF Len(longBlocked) > 0
            THEN <<Alert("alert", "blocked", <<"blocked > 7 days", Len(longBlocked)>>,
                         Some(longBlocked), None)>>
            ELSE <<>>)
        \o
        (IF Len(recentBlocked) > 0
            THEN <<Alert("warning", "blocked", <<"currently blocked", Len(recentBlocked)>>,
                         Some(recentBlocked), None)>>
            ELSE <<>>)

\* a missing priority taken as high: no `|| 4` default
detectHighPriorityAtRiskNoDefault(items, now) ==
    LET threshold == thresholds.highPriorityDays * 24 * 60 * 60 * 1000
        atRiskItems == SelectSeq(items, LAMBDA wi :
                           /\ ~isCompleted(wi)
                           /\ ~(wi.priority /= None /\ Get(wi.priority) > 2)
                           /\ elapsed(now, wi) > threshold)
    IN  IF Len(atRiskItems) > 0
            THEN <<Alert("alert", "high-priority",
                         <<"at risk", Len(atRiskItems), thresholds.highPriorityDays>>,
                         Some(atRiskItems), None)>>
            ELSE <<>>

\* the at-risk rule without the completion check
detectHighPriorityAtRiskAnyState(items, now) ==
    LET threshold == thresholds.highPriorityDays * 24 * 60 * 60 * 1000
        atRiskItems == SelectSeq(items, LAMBDA wi :
                           /\ ~(priorityOr4(wi) > 2)
                           /\ elapsed(now, wi) > threshold)
    IN  IF Len(atRiskItems) > 0
            THEN <<Alert("alert", "high-priority",
                         <<"at risk", Len(atRiskItems), thresholds.highPriorityDays>>,
                         Some(atRiskItems), None)>>
            ELSE <<>>

detectHighPriorityAtRisk(items, now) ==
    LET threshold == thresholds.highPriorityDays * 24 * 60 * 60 * 1000
        atRiskItems == SelectSeq(items, LAMBDA wi :
                           /\ ~isCompleted(wi)
                           /\ ~(priorityOr4(wi) > 2)
                           /\ elapsed(now, wi) > threshold)
    IN  IF Len(atRiskItems) > 0
            THEN <<Alert("alert", "high-priority",
                         <<"at risk", Len(atRiskItems), thresholds.highPriorityDays>>,
                         Some(atRiskItems), None)>>
            ELSE <<>>

\* The first roster position whose member matches the assignee, 0 when none
\* does (the for ... break loop of detectWorkloadImbalance).
firstMatch(assignee, members) ==
    IF \E j \in 1..Len(members) : matchesMember(assignee, members[j])
        THEN CHOOSE j \in 1..Len(members) :
                /\ matchesMember(assignee, members[j])
                /\ \A k \in 1..(j - 1) : ~matchesMember(assignee, members[k])
        ELSE 0

\* memberCounts after the forEach over the first n work items: a map from
\* lower-cased member email to the number of items counted for it.
RECURSIVE countItems(_, _, _)
countItems(items, members, n) ==
    IF n = 0
        THEN [e \in {toLowerCase(members[j].email) : j \in 1..Len(members)} |-> 0]
        ELSE
            LET counts == countItems(items, members, n - 1)
                wi == items[n]
                assignee == wi.assignedTo
                email == toLowerCaseOpt(Get(assignee).uniqueName)
                j == firstMatch(Get(assignee), members)
            IN  IF isCompleted(wi) THEN counts
                ELSE IF assignee = None THEN counts
                ELSE IF email /= None /\ Get(email) /= <<>> /\ Get(email) \in DOMAIN counts
                    THEN [counts EXCEPT ![Get(email)] = @ + 1]
                ELSE IF j /= 0
                    THEN [counts EXCEPT ![toLowerCase(members[j].email)] = @ + 1]
                ELSE counts

memberCounts(items, members) == countItems(items, members, Len(items))

\* the thresholds taken inclusively: >= and <= where the code has > and <
RECURSIVE imbalanceAlertsInclusive(_, _, _)
imbalanceAlertsInclusive(counts, members, n) ==
    IF n = 0 THEN <<>>
    ELSE
        LET member == members[n]
            count == counts[toLowerCase(member.email)]
        IN  imbalanceAlertsInclusive(counts, members, n - 1) \o
            (IF count >= thresholds.maxItemsPerPerson
                THEN <<Alert("warning", "workload",
                             <<member.name, count, "above", thresholds.maxItemsPerPerson>>,
                             None, Some(member))>>
             ELSE IF count <= thresholds.minItemsPerPerson
                THEN <<Alert("info", "workload",
                             <<member.name, count, "below", thresholds.minItemsPerPerson>>,
                             None, Some(member))>>
             ELSE <<>>)

\* the workload alerts collected from the last member of the roster to the first
RECURSIVE imbalanceAlertsReversed(_, _, _)
imbalanceAlertsReversed(counts, members, n) ==
    IF n = 0 THEN <<>>
    ELSE
        LET member == members[n]
            count == counts[toLowerCase(member.email)]
        IN  (IF count > thresholds.maxItemsPerPerson
                THEN <<Alert("warning", "workload",
                             <<member.name, count, "above", thresholds.maxItemsPerPerson>>,
                             None, Some(member))>>
             ELSE IF count < thresholds.minItemsPerPerson
                THEN <<Alert("info", "workload",
                             <<member.name, count, "below", thresholds.minItemsPerPerson>>,
                             None, Some(member))>>
             ELSE <<>>)
            \o imbalanceAlertsReversed(counts, members, n - 1)

RECURSIVE imbalanceAlerts(_, _, _)
imbalanceAlerts(counts, members, n) ==
    IF n = 0 THEN <<>>
    ELSE
        LET member == members[n]
            count == counts[toLowerCase(member.email)]
        IN  imbalanceAlerts(counts, members, n - 1) \o
            (IF count > thresholds.maxItemsPerPerson
                THEN <<Alert("warning", "workload",
                             <<member.name, count, "above", thresholds.maxItemsPerPerson>>,
                             None, Some(member))>>
             ELSE IF count < thresholds.minItemsPerPerson
                THEN <<Alert("info", "workload",
                             <<member.name, count, "below", thresholds.minItemsPerPerson>>,
                             None, Some(member))>>
             ELSE <<>>)

detectWorkloadImbalance(items, tm) ==
    imbalanceAlerts(memberCounts(items, tm.members), tm.members, Len(tm.members))

\* the unassigned list kept on the analyzer and not cleared between runs
getUnassignedItemsKept(items) ==
    (IF result.status = "ok" THEN result.report.unassignedItems ELSE <<>>)
    \o SelectSeq(items, LAMBDA wi : ~isCompleted(wi) /\ wi.assignedTo = None)

\* the unassigned list without the completion check
getUnassignedItemsAnyState(items) ==
    SelectSeq(items, LAMBDA wi : wi.assignedTo = None)

getUnassignedItems(items) ==
    SelectSeq(items, LAMBDA wi : ~isCompleted(wi) /\ wi.assignedTo = None)

----------------------------------------------------------------------------
(* Workload distribution *)

\* Array.prototype.sort((a, b) => b.total - a.total): a stable sort, built by
\* inserting each entry behind every entry whose total is not smaller.
\* an entry put in front of the entries of equal total
insertBeforeTies(sorted, e) ==
    LET k == Cardinality({i \in 1..Len(sorted) : sorted[i].total > e.total})
    IN  SubSeq(sorted, 1, k) \o <<e>> \o SubSeq(sorted, k + 1, Len(sorted))

insertByTotal(sorted, e) ==
    LET k == Cardinality({i \in 1..Len(sorted) : sorted[i].total >= e.total})
    IN  SubSeq(sorted, 1, k) \o <<e>> \o SubSeq(sorted, k + 1, Len(sorted))

RECURSIVE sortByTotalDesc(_)
sortByTotalDesc(d) ==
    IF d = <<>> THEN <<>>
    ELSE insertByTotal(sortByTotalDesc(SubSeq(d, 1, Len(d) - 1)), d[Len(d)])

\* the member's items filtered by completion before they are counted
memberWorkloadOpenOnly(items, member) ==
    LET memberItems == SelectSeq(items, LAMBDA wi :
                           /\ wi.assignedTo /= None
                           /\ matchesMember(Get(wi.assignedTo), member)
                           /\ ~isCompleted(wi))
        activeItems == SelectSeq(memberItems, LAMBDA wi :
                           inCategory(wi, stateCategories.active))
        blockedItems == SelectSeq(memberItems, LAMBDA wi :
                           inCategory(wi, stateCategories.blocked))
        total == Len(memberItems)
        status == IF total > thresholds.maxItemsPerPerson THEN "alert"
                  ELSE IF total < thresholds.minItemsPerPerson THEN "warning"
                  ELSE "ok"
    IN  [member |-> member, active |-> Len(activeItems), blocked |-> Len(blockedItems),
         total |-> total, items |-> memberItems, status |-> status]

\* an item counted once for every entry of the category its state matches
memberWorkloadPerEntry(items, member) ==
    LET memberItems == SelectSeq(items, LAMBDA wi :
                           /\ wi.assignedTo /= None
                           /\ matchesMember(Get(wi.assignedTo), member))
        entries(wi, category) ==
            Cardinality({n \in 1..Len(category) :
                            toLowerCase(Get(wi.state)) = toLowerCase(category[n])})
        active == SumSeq([i \in 1..Len(memberItems) |->
                             entries(memberItems[i], stateCategories.active)])
        blocked == SumSeq([i \in 1..Len(memberItems) |->
                              entries(memberItems[i], stateCategories.blocked)])
        total == Len(SelectSeq(memberItems, LAMBDA wi : ~isCompleted(wi)))
        status == IF total > thresholds.maxItemsPerPerson THEN "alert"
                  ELSE IF total < thresholds.minItemsPerPerson THEN "warning"
                  ELSE "ok"
    IN  [member |-> member, active |-> active, blocked |-> blocked,
         total |-> total, items |-> memberItems, status |-> status]

memberWorkload(items, member) ==
    LET memberItems == SelectSeq(items, LAMBDA wi :
                           /\ wi.assignedTo /= None
                           /\ matchesMember(Get(wi.assignedTo), member))
        activeItems == SelectSeq(memberItems, LAMBDA wi :
                           inCategory(wi, stateCategories.active))
        blockedItems == SelectSeq(memberItems, LAMBDA wi :
                           inCategory(wi, stateCategories.blocked))
        total == Len(SelectSeq(memberItems, LAMBDA wi : ~isCompleted(wi)))
        status == IF total > thresholds.maxItemsPerPerson THEN "alert"
                  ELSE IF total < thresholds.minItemsPerPerson THEN "warning"
                  ELSE "ok"
    IN  [member |-> member, active |-> Len(activeItems), blocked |-> Len(blockedItems),
         total |-> total, items |-> memberItems, status |-> status]

calculateWorkloadDistribution(items, tm) ==
    sortByTotalDesc([j \in 1..Len(tm.members) |-> memberWorkload(items, tm.members[j])])

----------------------------------------------------------------------------
(* Activity summary *)

\* the window start left out of the window: > where the code has >=
windowCountsExclusive(items, since) ==
    [updated |-> Len(SelectSeq(items, LAMBDA wi : wi.changedDate > since)),
     closed  |-> Len(SelectSeq(items, LAMBDA wi : wi.changedDate > since /\ isCompleted(wi))),
     created |-> Len(SelectSeq(items, LAMBDA wi : wi.createdDate > since))]

windowCounts(items, since) ==
    [updated |-> Len(SelectSeq(items, LAMBDA wi : wi.changedDate >= since)),
     closed  |-> Len(SelectSeq(items, LAMBDA wi : wi.changedDate >= since /\ isCompleted(wi))),
     created |-> Len(SelectSeq(items, LAMBDA wi : wi.createdDate >= since))]

\* the two windows exchanged
calculateActivitySummarySwapped(items, now) ==
    LET oneDayAgo == now - 24 * 60 * 60 * 1000
        sevenDaysAgo == now - 7 * 24 * 60 * 60 * 1000
    IN  [last24h |-> windowCounts(items, sevenDaysAgo),
         last7d  |-> windowCounts(items, oneDayAgo)]

calculateActivitySummary(items, now) ==
    LET oneDayAgo == now - 24 * 60 * 60 * 1000
        sevenDaysAgo == now - 7 * 24 * 60 * 60 * 1000
    IN  [last24h |-> windowCounts(items, oneDayAgo),
         last7d  |-> windowCounts(items, sevenDaysAgo)]

----------------------------------------------------------------------------
(* Health score *)

\* alert.workItems?.length ?? 0: no default of one item
itemCountNoDefault(alert) ==
    IF alert.workItems = None THEN 0 ELSE Len(Get(alert.workItems))

\* alert.workItems?.length || 1
itemCount(alert) ==
    IF alert.workItems = None \/ Len(Get(alert.workItems)) = 0
        THEN 1 ELSE Len(Get(alert.workItems))

\* the caps taken as floors: Math.max where the code has Math.min
deductionFloored(alert) ==
    CASE alert.severity = "alert"   -> Max(15, itemCount(alert) * 5)
      [] alert.severity = "warning" -> Max(10, itemCount(alert) * 2)
      [] alert.severity = "info"    -> Max(5, itemCount(alert))
      [] OTHER -> 0

deduction(alert) ==
    CASE alert.severity = "alert"   -> Min(15, itemCount(alert) * 5)
      [] alert.severity = "warning" -> Min(10, itemCount(alert) * 2)
      [] alert.severity = "info"    -> Min(5, itemCount(alert))
      [] OTHER -> 0

\* the first alert of the sequence deducted twice
RECURSIVE scoreAfterFirstTwice(_, _)
scoreAfterFirstTwice(alerts, n) ==
    IF n = 0 THEN 100
    ELSE scoreAfterFirstTwice(alerts, n - 1)
            - (IF n = 1 THEN 2 * deduction(alerts[n]) ELSE deduction(alerts[n]))

\* score after the first n alerts of the loop
RECURSIVE scoreAfter(_, _)
scoreAfter(alerts, n) ==
    IF n = 0 THEN 100 ELSE scoreAfter(alerts, n - 1) - deduction(alerts[n])

\* the score without its lower clamp
calculateHealthScoreNoFloor(alerts) == Min(100, scoreAfter(alerts, Len(alerts)))

\* Math.round is the identity on the integer the loop leaves.
calculateHealthScore(alerts) == Max(0, Min(100, scoreAfter(alerts, Len(alerts))))

----------------------------------------------------------------------------
(* analyzeTeamHealth *)

\* The call raises a TypeError when `.toLowerCase()` is applied to a missing
\* System.State: in the completion check and the blocked filter (run on every
\* item, unless the category is empty), or in the active filter of the
\* workload distribution (run on the items matched to a member).
analyzeThrows(items, tm) ==
    \E i \in 1..Len(items) :
        /\ items[i].state = None
        /\ \/ stateCategories.completed /= <<>>
           \/ stateCategories.blocked /= <<>>
           \/ /\ stateCategories.active /= <<>>
              /\ items[i].assignedTo /= None
              /\ \E j \in 1..Len(tm.members) :
                    matchesMember(Get(items[i].assignedTo), tm.members[j])

\* `reads` holds the clock values the five `new Date()` calls of one run see.
analyzeTeamHealth(items, tm, reads) ==
    LET detected ==
            detectStaleItems(items, reads.stale)
            \o detectBlockedItems(items, reads.blocked)
            \o detectHighPriorityAtRisk(items, reads.highPriority)
            \o detectWorkloadImbalance(items, tm)
        unassignedItems == getUnassignedItems(items)
        alerts ==
            detected \o
            (IF Len(unassignedItems) > 0
                THEN <<Alert("alert", "unassigned", <<"unassigned", Len(unassignedItems)>>,
                             Some(unassignedItems), None)>>
                ELSE <<>>)
    IN  [generatedAt |-> reads.now,
         team |-> tm,
         summary |-> [teamSize |-> Len(tm.members),
                      activeItems |-> Len(SelectSeq(items, LAMBDA wi : ~isCompleted(wi))),
                      healthScore |-> calculateHealthScore(alerts)],
         alerts |-> alerts,
         workloadDistribution |-> calculateWorkloadDistribution(items, tm),
         unassignedItems |-> unassignedItems,
         recentActivity |-> calculateActivitySummary(items, reads.activity)]

NoResult == [status |-> "none"]
Threw == [status |-> "threw"]

\* What one call leaves: the report, and the memberCounts map the workload
\* rule built on the way.
outcome(items, tm, reads) ==
    IF analyzeThrows(items, tm) THEN Threw
    ELSE [status |-> "ok",
          report |-> analyzeTeamHealth(items, tm, reads),
          memberCounts |-> memberCounts(items, tm.members)]

----------------------------------------------------------------------------
(* Report formatter *)

\* One console.log of the formatter that carries report data (the rules,
\* headings without data and blank lines are left out): the section it is
\* printed in, what it is, the position of the alert it belongs to in the
\* array being printed (0 outside an alert) and the values interpolated into
\* its text.  A work item is printed by its id; its title and type are not
\* read by the analyzer and are not part of the model.
Line(section, kind, alert, values) ==
    [section |-> section, kind |-> kind, alert |-> alert, values |-> values]

\* Array.prototype.slice(0, n): a new array, the receiver is left as it is
slice(s, n) == SubSeq(s, 1, Min(n, Len(s)))

RECURSIVE Flat(_)
Flat(ss) == IF ss = <<>> THEN <<>> ELSE Head(ss) \o Flat(Tail(ss))

\* ReportFormatter.getDaysSinceUpdate
getDaysSinceUpdate(wi, now) == (now - wi.changedDate) \div MsPerDay

OrText(opt, text) == IF opt = None \/ Get(opt) = <<>> THEN <<text>> ELSE Get(opt)

printHeader(report) ==
    <<Line("header", "title", 0, <<report.team.name, report.generatedAt \div MsPerDay>>)>>

printSummary(report) ==
    LET summary == report.summary
        scoreColor == IF summary.healthScore >= 80 THEN "green"
                      ELSE IF summary.healthScore >= 60 THEN "yellow" ELSE "red"
        count(sev) == Len(SelectSeq(report.alerts, LAMBDA a : a.severity = sev))
    IN  <<Line("summary", "counts", 0,
               <<summary.teamSize, summary.activeItems, summary.healthScore, scoreColor>>)>>
        \o (IF count("alert") > 0 \/ count("warning") > 0
               THEN <<Line("summary", "issues", 0,
                           <<count("alert"), count("warning"), count("info")>>)>>
               ELSE <<>>)

alertItemLines(wi, n, now) ==
    LET priority == IF wi.priority = None \/ Get(wi.priority) = 0
                        THEN <<"-">> ELSE <<Get(wi.priority)>>
        assignee == IF wi.assignedTo = None THEN <<"Unassigned">>
                    ELSE OrText(Get(wi.assignedTo).displayName, "Unassigned")
    IN  <<Line("alerts", "item", n, <<wi.id>>),
          Line("alerts", "itemDetail", n, <<priority, assignee, getDaysSinceUpdate(wi, now)>>)>>

\* the "... and N more" line is printed from five items on
printAlertsMoreFromFive(alerts, now) ==
    IF Len(alerts) = 0 THEN <<>>
    ELSE Flat([n \in 1..Len(alerts) |->
            LET alert == alerts[n]
            IN  <<Line("alerts", "message", n, alert.message)>>
                \o (IF alert.workItems /= None /\ Len(Get(alert.workItems)) > 0
                       THEN LET items == slice(Get(alert.workItems), 5)
                            IN  Flat([i \in 1..Len(items) |-> alertItemLines(items[i], n, now)])
                                \o (IF Len(Get(alert.workItems)) >= 5
                                       THEN <<Line("alerts", "more", n,
                                                   <<Len(Get(alert.workItems)) - 5>>)>>
                                       ELSE <<>>)
                       ELSE <<>>)])

printAlerts(alerts, now) ==
    IF Len(alerts) = 0 THEN <<>>
    ELSE Flat([n \in 1..Len(alerts) |->
            LET alert == alerts[n]
            IN  <<Line("alerts", "message", n, alert.message)>>
                \o (IF alert.workItems /= None /\ Len(Get(alert.workItems)) > 0
                       THEN LET items == slice(Get(alert.workItems), 5)
                            IN  Flat([i \in 1..Len(items) |-> alertItemLines(items[i], n, now)])
                                \o (IF Len(Get(alert.workItems)) > 5
                                       THEN <<Line("alerts", "more", n,
                                                   <<Len(Get(alert.workItems)) - 5>>)>>
                                       ELSE <<>>)
                       ELSE <<>>)])

warningItemLine(wi, n, now) ==
    LET assignee == IF wi.assignedTo = None THEN <<"-">>
                    ELSE OrText(Get(wi.assignedTo).displayName, "-")
    IN  Line("warnings", "item", n,
             <<wi.id, wi.state, assignee, getDaysSinceUpdate(wi, now)>>)

printWarnings(alerts, now) ==
    IF Len(alerts) = 0 THEN <<>>
    ELSE Flat([n \in 1..Len(alerts) |->
            LET alert == alerts[n]
                prefix == IF alert.severity = "warning" THEN "[~]" ELSE "[i]"
            IN  <<Line("warnings", "message", n, <<prefix, alert.message>>)>>
                \o (IF /\ alert.workItems /= None
                       /\ Len(Get(alert.workItems)) > 0
                       /\ Len(Get(alert.workItems)) <= 3
                       THEN [i \in 1..Len(Get(alert.workItems)) |->
                                warningItemLine(Get(alert.workItems)[i], n, now)]
                       ELSE <<>>)])

printWorkloadTable(distribution) ==
    [n \in 1..Len(distribution) |->
        LET workload == distribution[n]
            statusIcon == IF workload.status = "ok" THEN "[OK]"
                          ELSE IF workload.status = "warning" THEN "[~]" ELSE "[!]"
        IN  Line("workload", "row", 0,
                 <<workload.member.name, workload.active, workload.blocked,
                   workload.total, statusIcon>>)]

\* `detail` is optional and defaults to false
printUnassignedItems(items, detail) ==
    LET full == detail /= None /\ Get(detail)
        displayItems == IF full THEN items ELSE slice(items, 5)
    IN  <<Line("unassigned", "title", 0, <<Len(items)>>)>>
        \o [i \in 1..Len(displayItems) |->
               Line("unassigned", "item", 0, <<displayItems[i].id, displayItems[i].state>>)]
        \o (IF ~full /\ Len(items) > 5
               THEN <<Line("unassigned", "more", 0, <<Len(items) - 5>>)>>
               ELSE <<>>)

printActivitySummary(activity) ==
    <<Line("activity", "last24h", 0,
           <<activity.last24h.updated, activity.last24h.closed, activity.last24h.created>>),
      Line("activity", "last7d", 0,
           <<activity.last7d.updated, activity.last7d.closed, activity.last7d.created>>)>>

printFooter == <<Line("footer", "hints", 0, <<"--json", "--detail">>)>>

\* The lines formatReport prints; `now` is the instant its getDaysSinceUpdate
\* calls read.
formatReport(report, options, now) ==
    printHeader(report)
    \o printSummary(report)
    \o printAlerts(SelectSeq(report.alerts, LAMBDA a : a.severity = "alert"), now)
    \o printWarnings(SelectSeq(report.alerts,
                               LAMBDA a : a.severity = "warning" \/ a.severity = "info"), now)
    \o printWorkloadTable(report.workloadDistribution)
    \o (IF Len(report.unassignedItems) > 0
           THEN printUnassignedItems(report.unassignedItems, options.detail)
           ELSE <<>>)
    \o printActivitySummary(report.recentActivity)
    \o printFooter

\* JSON.stringify(report, null, 2): the text of the report's value
formatJsonReport(report) == <<"JSON", report>>

NoOutput == [format |-> "none"]

NoCommand == [command |-> "none"]

----------------------------------------------------------------------------
(* The clock *)

Base == 8 * MsPerDay

\* the instants the clock takes during the runs that are modelled
ClockValues == {Base, Base + 1}

\* a clock that may go back between the reads of one run
ReadsAnyOrder(from) ==
    [now : ClockValues, stale : ClockValues, blocked : ClockValues,
     highPriority : ClockValues, activity : ClockValues]

\* The clock never goes back: the reads of one run are in program order.
Reads(from) ==
    {r \in [now : ClockValues, stale : ClockValues, blocked : ClockValues,
            highPriority : ClockValues, activity : ClockValues] :
        /\ from <= r.now
        /\ r.now <= r.stale
        /\ r.stale <= r.blocked
        /\ r.blocked <= r.highPriority
        /\ r.highPriority <= r.activity}

\* the run with `team.members.sort(...)` in place of the sort of the new
\* distribution array: the roster is left in the order of the distribution
RunSortingRoster(r) ==
    LET after == outcome(workItems, team, r)
        sorted == [j \in 1..Len(team.members) |->
                      after.report.workloadDistribution[j].member]
    IN  /\ team' = IF after = Threw THEN team ELSE [team EXCEPT !.members = sorted]
        /\ result' = IF after = Threw THEN after
                     ELSE [after EXCEPT !.report.team = team']
        /\ clock' = r.activity
        /\ UNCHANGED <<workItems, thresholds, stateCategories, output, stored, last>>

Run(r) ==
    /\ result' = outcome(workItems, team, r)
    /\ clock' = r.activity
    /\ UNCHANGED <<workItems, team, thresholds, stateCategories, output, stored, last>>

\* the analysis of one `team status` invocation
AnalyzeTeamHealth ==
    \E r \in Reads(clock) :
        /\ result = NoResult
        /\ Run(r)
        /\ UNCHANGED prev

\* the same, remembering the outcome of the run before
AnalyzeAgain ==
    \E r \in Reads(clock) :
        /\ Run(r)
        /\ prev' = result

\* `team status` printing the report it has: formatter.formatReport(report,
\* { detail: options.detail }).  The days printed are whole days, the same at
\* every instant of one rendering.
FormatReport ==
    \E detail \in {None, Some(TRUE), Some(FALSE)}, now \in ClockValues :
        /\ result.status = "ok"
        /\ output = NoOutput
        /\ clock <= now
        /\ output' = [format |-> "text", detail |-> detail,
                      lines |-> formatReport(result.report, [detail |-> detail], now)]
        /\ clock' = now
        /\ UNCHANGED <<workItems, team, thresholds, stateCategories, result, prev,
                       stored, last>>

\* `team status --json`: console.log(formatter.formatJsonReport(report))
FormatJsonReport ==
    /\ result.status = "ok"
    /\ output = NoOutput
    /\ output' = [format |-> "json", text |-> formatJsonReport(result.report)]
    /\ UNCHANGED <<workItems, team, thresholds, stateCategories, clock, result, prev,
                   stored, last>>

----------------------------------------------------------------------------
(* Inputs *)

MaxItems == 2
MaxMembers == 2

sNew     == <<"N","e","w">>
sActive  == <<"A","c","t","i","v","e">>
sBlocked == <<"B","l","o","c","k","e","d">>
sBLOCKED == <<"B","L","O","C","K","E","D">>
sClosed  == <<"C","l","o","s","e","d">>
sDone    == <<"D","o","n","e">>
sdone    == <<"d","o","n","e">>
sDesign  == <<"D","e","s","i","g","n">>

Categories ==
    [active |-> <<sActive, sNew>>, blocked |-> <<sBlocked>>, completed |-> <<sClosed, sDone>>]
NoCategories == [active |-> <<>>, blocked |-> <<>>, completed |-> <<>>]
ActiveOnly == [active |-> <<sNew>>, blocked |-> <<>>, completed |-> <<>>]

Thresholds(stale, high, maxItems, minItems) ==
    [staleDays |-> stale, stuckInStateDays |-> 14, maxItemsPerPerson |-> maxItems,
     minItemsPerPerson |-> minItems, highPriorityDays |-> high]

Assignee(unique, display) == [uniqueName |-> unique, displayName |-> display]
Member(name, email, aliases) == [name |-> name, email |-> email, aliases |-> aliases]

Alice == Member(<<"A","l">>, <<"a","@","x">>, Some(<<>>))
Bob   == Member(<<"B","o">>, <<"b","@","x">>, None)
Ann   == Member(<<"A","n","n">>, <<"n","@","x">>, Some(<<<<"A","L">>, <<"n","2","@","x">>>>))

\* Alice by email (in another case) and by name
asAlice   == Assignee(Some(<<"A","@","X">>), Some(<<"A","l">>))
\* no member's email; the display name is Alice's name and an alias of Ann
asAl      == Assignee(Some(<<"z","@","x">>), Some(<<"a","l">>))
\* Bob's email under Alice's display name
asBobAl   == Assignee(Some(<<"b","@","x">>), Some(<<"A","l">>))
\* nobody of the roster
asZed     == Assignee(Some(<<"z","@","x">>), Some(<<"Z","e","d">>))
\* an identity without unique name and display name
asNameless == Assignee(None, None)

\* the fetched list: item i of the list is object i
WithIds(shapes) == [i \in 1..Len(shapes) |-> [id |-> i] @@ shapes[i]]

ItemLists(shapes, n) == {WithIds(s) : s \in UNION {[1..k -> shapes] : k \in 0..n}}

\* rosters without a repeated member
Rosters(members, n) ==
    {r \in UNION {[1..k -> members] : k \in 0..n} :
        \A i, j \in 1..Len(r) : i /= j => r[i] /= r[j]}

Team(members) == [name |-> <<"T">>, members |-> members]

\* Ages around the thresholds (one ms more than 7 days, 7 days, 0) under the
\* priorities around the high-priority limit.
Old == Base - 7 * MsPerDay - 1
SevenDays == Base - 7 * MsPerDay
TimedShapes ==
    {[state |-> Some(st), assignedTo |-> None, priority |-> pc[1],
      changedDate |-> pc[2], createdDate |-> pc[2]] :
        st \in {sNew, sdone, sBLOCKED},
        pc \in {<<None, Old>>, <<Some(2), Old>>,
                <<Some(2), SevenDays>>, <<Some(3), SevenDays>>, <<Some(2), Base>>}}

AssignedShapes ==
    {[state |-> Some(sa[1]), assignedTo |-> sa[2], priority |-> None,
      changedDate |-> Base, createdDate |-> Base - MsPerDay] :
        sa \in {<<sNew, None>>, <<sNew, Some(asAlice)>>, <<sNew, Some(asAl)>>,
                <<sNew, Some(asBobAl)>>, <<sNew, Some(asZed)>>,
                <<sDone, Some(asAlice)>>}}

MalformedShapes ==
    {[state |-> st, assignedTo |-> a, priority |-> None,
      changedDate |-> Base, createdDate |-> Base] :
        st \in {None, Some(sDesign)},
        a \in {None, Some(asAlice), Some(asNameless)}}

\* A large team: nA old blocked P1 items and nB one-day-old blocked P3 items,
\* all unassigned, and k members with one new item each.
Digits == <<"0","1","2","3","4","5","6","7","8","9","a","b">>
ManyMember(j) == Member(<<"M", Digits[j]>>, <<"m", Digits[j]>>, None)
ManyItems(nA, nB, k) ==
    WithIds([i \in 1..(nA + nB + k) |->
        IF i <= nA
            THEN [state |-> Some(sBlocked), assignedTo |-> None, priority |-> Some(1),
                  changedDate |-> 0, createdDate |-> 0]
        ELSE IF i <= nA + nB
            THEN [state |-> Some(sBlocked), assignedTo |-> None, priority |-> Some(3),
                  changedDate |-> Base - MsPerDay, createdDate |-> 0]
        ELSE [state |-> Some(sNew),
              assignedTo |-> Some(Assignee(Some(ManyMember(i - nA - nB).email), None)),
              priority |-> Some(4), changedDate |-> Base, createdDate |-> Base]])

\* Identities that reach a member by one route only: by an alias through the
\* unique name, by name or alias without a unique name, by email without a
\* display name; in an active and in a blocked state.
asN2        == Assignee(Some(<<"N","2","@","X">>), Some(<<"Z","e","d">>))
asNoUnique  == Assignee(None, Some(<<"A","L">>))
asEmailOnly == Assignee(Some(<<"B","@","X">>), None)

MatchingShapes ==
    {[state |-> Some(sa[1]), assignedTo |-> Some(sa[2]), priority |-> None,
      changedDate |-> Base, createdDate |-> Base] :
        sa \in {sNew, sBLOCKED, sDesign} \X {asN2, asNoUnique, asEmailOnly, asNameless}}

InitWith(items, members, th, sc) ==
    /\ workItems = items
    /\ team = Team(members)
    /\ thresholds = th
    /\ stateCategories = sc
    /\ clock = Base
    /\ result = NoResult
    /\ prev = NoResult
    /\ output = NoOutput
    /\ stored = None
    /\ last = NoCommand

InitTimed ==
    \E items \in ItemLists(TimedShapes, MaxItems), days \in {<<0, 7>>, <<7, 0>>, <<7, 7>>} :
        InitWith(items, <<>>, Thresholds(days[1], days[2], 10, 1), Categories)

InitAssigned ==
    \E items \in ItemLists(AssignedShapes, MaxItems),
       members \in Rosters({Alice, Bob, Ann}, MaxMembers),
       load \in {<<0, 0>>, <<1, 1>>, <<1, 2>>} :
        InitWith(items, members, Thresholds(7, 3, load[1], load[2]), Categories)

InitMalformed ==
    \E items \in ItemLists(MalformedShapes, 1),
       members \in {<<>>, <<Alice>>},
       sc \in {Categories, NoCategories, ActiveOnly} :
        InitWith(items, members, Thresholds(7, 3, 10, 1), sc)

InitMany ==
    \E nA \in {0, 4}, nB \in {0, 5, 6}, k \in {0, 10, 11} :
        InitWith(ManyItems(nA, nB, k), [j \in 1..k |-> ManyMember(j)],
                 Thresholds(0, 0, 0, 0), Categories)

InitMatching ==
    \E items \in ItemLists(MatchingShapes, 1), members \in {<<Alice>>, <<Bob>>, <<Ann>>} :
        InitWith(items, members, Thresholds(7, 3, 1, 1), Categories)

\* Changed and created times around the starts of the two windows and in the
\* future, on open and completed, assigned and unassigned items.
Future == Base + MsPerDay
ActivityShapes ==
    {[state |-> Some(x[1]), assignedTo |-> x[2], priority |-> None,
      changedDate |-> x[3], createdDate |-> x[4]] :
        x \in {<<sNew, None, Future, Future>>,
               <<sdone, None, Future, Base>>,
               <<sNew, None, Base - MsPerDay, Old>>,
               <<sdone, Some(asAlice), Base - MsPerDay, SevenDays>>,
               <<sdone, None, SevenDays, SevenDays>>,
               <<sNew, Some(asAlice), Base, Base - MsPerDay>>}}

InitActivity ==
    \E items \in ItemLists(ActivityShapes, MaxItems) :
        InitWith(items, <<Alice>>, Thresholds(7, 3, 10, 0), Categories)

\* State categories that are not the defaults: a state listed as blocked and,
\* in another case, as completed; and disjoint categories that list a state
\* more than once.
Overlapping ==
    [active |-> <<sNew>>, blocked |-> <<sBlocked, sDone>>, completed |-> <<sdone, sClosed>>]
Repeating ==
    [active |-> <<sNew, sNew>>, blocked |-> <<sBlocked, sBLOCKED>>,
     completed |-> <<sDone, sdone>>]

CategoryShapes ==
    {[state |-> Some(x[1]), assignedTo |-> x[2], priority |-> Some(2),
      changedDate |-> x[3], createdDate |-> x[3]] :
        x \in {sNew, sBLOCKED, sDone, sDesign} \X {None, Some(asAlice)} \X {Old, Base}}

InitCategories ==
    \E items \in ItemLists(CategoryShapes, MaxItems), sc \in {Overlapping, Repeating} :
        InitWith(items, <<Alice>>, Thresholds(7, 3, 10, 0), sc)

Init ==
    \/ InitTimed \/ InitAssigned \/ InitMalformed \/ InitMany \/ InitMatching
    \/ InitActivity

Next == AnalyzeTeamHealth

Spec == Init /\ [][Next]_vars

\* Runs over the items around the activity windows.
SpecActivity == InitActivity /\ [][Next]_vars

\* Runs of an analyzer constructed with other state categories than the defaults.
SpecCategories == InitCategories /\ [][Next]_vars

\* Repeated runs over the same inputs.
RepeatShapes ==
    {[state |-> Some(x[1]), assignedTo |-> x[2], priority |-> x[3],
      changedDate |-> x[4], createdDate |-> x[4]] :
        x \in {<<sNew, None, Some(2), Old>>,
               <<sNew, None, Some(3), SevenDays>>,
               <<sBLOCKED, Some(asAlice), Some(2), SevenDays>>,
               <<sdone, Some(asAlice), None, Base - MsPerDay>>,
               <<sNew, Some(asAl), Some(2), Base>>}}

InitRepeat ==
    \E items \in ItemLists(RepeatShapes, 2),
       members \in {<<>>, <<Alice>>, <<Ann, Alice>>, <<Bob, Alice>>},
       days \in {<<0, 7>>, <<7, 0>>} :
        InitWith(items, members, Thresholds(days[1], days[2], 1, 1), Categories)

NextRepeat == AnalyzeAgain

SpecRepeat == InitRepeat /\ [][NextRepeat]_vars

\* Reports with short and long item lists, and their renderings.
InitFormat ==
    \E nA \in {0, 5, 6}, nB \in {0, 1, 4}, k \in {0, 1} :
        InitWith(ManyItems(nA, nB, k), [j \in 1..k |-> ManyMember(j)],
                 Thresholds(0, 0, 0, 0), Categories)

NextFormat == AnalyzeTeamHealth \/ FormatReport \/ FormatJsonReport

SpecFormat == InitFormat /\ [][NextFormat]_vars

----------------------------------------------------------------------------
(* Team commands: the persisted team config *)

\* A command-line argument is a sequence of pieces: a word (a threshold name,
\* another key) or a single character (a digit, a sign, "=", a letter).
RECURSIVE join(_)
join(pieces) == IF pieces = <<>> THEN "" ELSE Head(pieces) \o join(Tail(pieces))

\* String.prototype.split(sep): the segments between the separators
RECURSIVE split(_, _)
split(pieces, sep) ==
    IF \E i \in 1..Len(pieces) : pieces[i] = sep
        THEN LET i == CHOOSE i \in 1..Len(pieces) :
                        /\ pieces[i] = sep
                        /\ \A j \in 1..(i - 1) : pieces[j] /= sep
             IN  <<SubSeq(pieces, 1, i - 1)>> \o split(SubSeq(pieces, i + 1, Len(pieces)), sep)
        ELSE <<pieces>>

DigitValue ==
    [c \in {"0","1","2","3","4","5","6","7","8","9"} |->
        CASE c = "0" -> 0 [] c = "1" -> 1 [] c = "2" -> 2 [] c = "3" -> 3 [] c = "4" -> 4
          [] c = "5" -> 5 [] c = "6" -> 6 [] c = "7" -> 7 [] c = "8" -> 8 [] c = "9" -> 9]

RECURSIVE leadingDigits(_)
leadingDigits(pieces) ==
    IF pieces /= <<>> /\ Head(pieces) \in DOMAIN DigitValue
        THEN <<Head(pieces)>> \o leadingDigits(Tail(pieces))
        ELSE <<>>

RECURSIVE skipSpaces(_)
skipSpaces(pieces) ==
    IF pieces /= <<>> /\ Head(pieces) = " " THEN skipSpaces(Tail(pieces)) ELSE pieces

RECURSIVE decimal(_)
decimal(digits) ==
    IF digits = <<>> THEN 0
    ELSE 10 * decimal(SubSeq(digits, 1, Len(digits) - 1)) + DigitValue[digits[Len(digits)]]

\* parseInt(text, 10): leading blanks are skipped, a sign is read, then the
\* longest run of digits; what follows is ignored; None stands for NaN.
parseInt(pieces) ==
    LET trimmed == skipSpaces(pieces)
        signed == trimmed /= <<>> /\ Head(trimmed) \in {"+", "-"}
        negative == signed /\ Head(trimmed) = "-"
        digits == leadingDigits(IF signed THEN Tail(trimmed) ELSE trimmed)
    IN  IF digits = <<>> THEN None
        ELSE Some(IF negative THEN 0 - decimal(digits) ELSE decimal(digits))

\* ConfigManager
getDefaultThresholds == Thresholds(7, 3, 10, 1)
getDefaultStateCategories == Categories

\* JSON.parse of the file JSON.stringify wrote: the strings, integers, arrays
\* and objects of a team config come back as they were; null without a file.
getTeamConfig == stored
saveTeamConfig(config) == Some(config)

\* the properties every object inherits from Object.prototype
ObjectPrototypeProperties ==
    {"constructor", "hasOwnProperty", "isPrototypeOf", "propertyIsEnumerable",
     "toLocaleString", "toString", "valueOf", "__proto__"}

\* key in config.thresholds
keyIn(key, object) == key \in DOMAIN object \/ key \in ObjectPrototypeProperties

\* (config.thresholds as any)[key] = numValue; a number assigned to __proto__
\* is dropped
assign(object, key, value) ==
    IF key = "__proto__" THEN object
    ELSE IF key \in DOMAIN object THEN [object EXCEPT ![key] = value]
    ELSE (key :> value) @@ object

\* email.split('@')[0]
localPart(email) == split(email, "@")[1]

MemberEntry(name, email) == [name |-> name, email |-> email]

\* the roster test of `team add` with the emails compared as they are written
someExact(members, email) == \E i \in 1..Len(members) : members[i].email = email

\* members.some(m => m.email.toLowerCase() === email.toLowerCase())
some(members, email) ==
    \E i \in 1..Len(members) : toLowerCase(members[i].email) = toLowerCase(email)

\* position of the first member with that email, ignoring case; 0 for -1
findIndex(members, email) ==
    IF \E i \in 1..Len(members) : toLowerCase(members[i].email) = toLowerCase(email)
        THEN CHOOSE i \in 1..Len(members) :
                /\ toLowerCase(members[i].email) = toLowerCase(email)
                /\ \A j \in 1..(i - 1) :
                      toLowerCase(members[j].email) /= toLowerCase(email)
        ELSE 0

\* members.splice(index, 1)
splice(members, index) ==
    SubSeq(members, 1, index - 1) \o SubSeq(members, index + 1, Len(members))

\* the thresholds `team status` hands to the analyzer, the flag ignored
statusThresholdsStored(storedThresholds, staleDays) == storedThresholds

\* { ...teamConfig.thresholds } with the --stale-days flag, when given and not
\* empty, parsed into staleDays
statusThresholds(storedThresholds, staleDays) ==
    IF staleDays /= None /\ Get(staleDays) /= <<>>
        THEN [storedThresholds EXCEPT !.staleDays = Get(parseInt(Get(staleDays)))]
        ELSE storedThresholds

\* the TeamConfig handed to analyzeTeamHealth
teamOf(config) ==
    [name |-> config.team.name,
     members |-> [j \in 1..Len(config.team.members) |->
                     Member(config.team.members[j].name, config.team.members[j].email, None)]]

\* What a command was given and what it did before it returned.
Done(command, argument, ending, fetched, analyzed, saved) ==
    [command |-> command, argument |-> argument, outcome |-> ending,
     fetched |-> fetched, analyzed |-> analyzed, saved |-> saved]

\* A command that constructs no analyzer and prints no report: each command
\* runs in a process of its own.
NoAnalyzer ==
    /\ workItems' = <<>>
    /\ team' = Team(<<>>)
    /\ thresholds' = getDefaultThresholds
    /\ stateCategories' = getDefaultStateCategories
    /\ result' = NoResult
    /\ output' = NoOutput
    /\ UNCHANGED <<clock, prev>>

\* a command that writes a default config where it should return
RejectedSaving(command, argument, ending) ==
    /\ last' = Done(command, argument, ending, FALSE, FALSE, TRUE)
    /\ NoAnalyzer
    /\ stored' = saveTeamConfig([team |-> [name |-> <<>>, members |-> <<>>],
                                 thresholds |-> getDefaultThresholds,
                                 states |-> getDefaultStateCategories])

\* a command that returns after its message, or whose error is caught
Rejected(command, argument, ending) ==
    /\ last' = Done(command, argument, ending, FALSE, FALSE, FALSE)
    /\ NoAnalyzer
    /\ UNCHANGED stored

Saved(command, argument, ending, config) ==
    /\ stored' = saveTeamConfig(config)
    /\ last' = Done(command, argument, ending, FALSE, FALSE, TRUE)
    /\ NoAnalyzer

(* Inputs of the commands *)

MaxRoster == 2

ThreeDays == Base - 3 * MsPerDay

\* what the API client returns for the roster
FetchedLists ==
    {<<>>,
     WithIds(<<[state |-> Some(sNew), assignedTo |-> None, priority |-> Some(2),
                changedDate |-> ThreeDays, createdDate |-> ThreeDays],
               [state |-> Some(sNew), assignedTo |-> Some(asAlice), priority |-> None,
                changedDate |-> Base, createdDate |-> Base]>>)}

\* --stale-days: the values parseInt reads as a number
StaleDaysOptions ==
    {None, Some(<<>>), Some(<<"0">>), Some(<<"2">>), Some(<<"-", "1", "d">>)}

ReportOptions ==
    {o \in [json : BOOLEAN, detail : {None, Some(TRUE)}] : o.json => o.detail = None}

\* the clock values one run of the status command sees
StatusReads(from) == {r \in Reads(from) : r.now = r.activity}

InitAnswers ==
    [teamName : {<<"T">>},
     entries : {<<>>,
                <<MemberEntry(<<>>, <<"b","@","x">>)>>,
                <<MemberEntry(<<"A","l">>, <<"a","@","x">>)>>,
                <<MemberEntry(<<"A","l">>, <<"a","@","x">>),
                  MemberEntry(<<"A","l">>, <<"A","@","X">>)>>},
     thresholds : {None,
                   Some([staleDays |-> 0, maxItemsPerPerson |-> 5, highPriorityDays |-> 1])}]

AddInputs ==
    {[email |-> <<"b","@","x">>, name |-> None, promptedName |-> localPart(<<"b","@","x">>)],
     [email |-> <<"A","@","X">>, name |-> Some(<<"A","l">>), promptedName |-> <<>>]}

RemoveInputs == {<<"a","@","x">>, <<"B","@","X">>, <<"z","@","x">>}

SetInputs ==
    {None, Some(<<>>),
     Some(<<"staleDays", "=", "5">>),
     Some(<<"staleDays", "=", "-", "2">>),
     Some(<<"staleDays", "=", "5", "x">>),
     Some(<<"staleDays", "=", "5", "=", "9">>),
     Some(<<" ", "staleDays", "=", "5">>),
     Some(<<"staleDays", "=", "x">>),
     Some(<<"staleDays", "=">>),
     Some(<<"staleDays">>),
     Some(<<"=", "5">>),
     Some(<<"staleness", "=", "5">>),
     Some(<<"toString", "=", "5">>)}

(* The commands *)

\* The status command has constructed its analyzer and not yet run it.
Analyzing == last.command = "status" /\ last.outcome = "analyzing"

\* ado team status, up to `new HealthAnalyzer(thresholds, teamConfig.states)`
TeamStatus ==
    /\ ~Analyzing
    /\ \E staleDays \in StaleDaysOptions, authenticated \in BOOLEAN,
          fetched \in FetchedLists :
        LET teamConfig == getTeamConfig
        IN  IF ~authenticated
                THEN Rejected("status", staleDays, "authentication failed")
            ELSE IF teamConfig = None
                THEN Rejected("status", staleDays, "not configured")
            ELSE
                /\ workItems' = fetched
                /\ thresholds' = statusThresholds(Get(teamConfig).thresholds, staleDays)
                /\ stateCategories' = Get(teamConfig).states
                /\ team' = teamOf(Get(teamConfig))
                /\ result' = NoResult
                /\ output' = NoOutput
                /\ last' = Done("status", staleDays, "analyzing", TRUE, FALSE, FALSE)
                /\ UNCHANGED <<stored, clock, prev>>

\* ado team status, from `analyzer.analyzeTeamHealth(workItems, teamConfig.team)`
\* to the printed report
TeamStatusReport ==
    /\ Analyzing
    /\ \E options \in ReportOptions, r \in StatusReads(clock) :
        LET after == outcome(workItems, team, r)
        IN  /\ result' = after
            /\ output' =
                  IF after = Threw THEN NoOutput
                  ELSE IF options.json
                      THEN [format |-> "json", text |-> formatJsonReport(after.report)]
                      ELSE [format |-> "text", detail |-> options.detail,
                            lines |-> formatReport(after.report,
                                                   [detail |-> options.detail],
                                                   r.activity)]
            /\ clock' = r.activity
            /\ last' = [last EXCEPT !.outcome = IF after = Threw THEN "error" ELSE "report",
                                    !.analyzed = TRUE]
            /\ UNCHANGED <<workItems, team, thresholds, stateCategories, stored, prev>>

\* ado team init
TeamInit ==
    /\ ~Analyzing
    /\ \E answers \in InitAnswers :
            LET members == SelectSeq(answers.entries,
                                     LAMBDA e : e.name /= <<>> /\ e.email /= <<>>)
                defaults == getDefaultThresholds
                custom == Get(answers.thresholds)
                chosen == IF answers.thresholds = None THEN defaults
                          ELSE [defaults EXCEPT
                                   !.staleDays = custom.staleDays,
                                   !.maxItemsPerPerson = custom.maxItemsPerPerson,
                                   !.highPriorityDays = custom.highPriorityDays]
            IN  IF Len(members) = 0
                    THEN Rejected("init", None, "aborted")
                    ELSE Saved("init", None, "saved",
                               [team |-> [name |-> answers.teamName, members |-> members],
                                thresholds |-> chosen,
                                states |-> getDefaultStateCategories])

\* ado team add <email>
TeamAdd ==
    /\ ~Analyzing
    /\ \E input \in AddInputs :
            LET config == getTeamConfig
                members == Get(config).team.members
                name == IF input.name /= None /\ Get(input.name) /= <<>>
                            THEN Get(input.name) ELSE input.promptedName
            IN  IF config = None
                    THEN Rejected("add", Some(input.email), "not configured")
                ELSE IF some(members, input.email)
                    THEN Rejected("add", Some(input.email), "exists")
                ELSE
                    /\ Len(members) < MaxRoster
                    /\ Saved("add", Some(input.email), "added",
                             [Get(config) EXCEPT
                                 !.team.members = Append(members, MemberEntry(name, input.email))])

\* ado team remove <email>
TeamRemove ==
    /\ ~Analyzing
    /\ \E email \in RemoveInputs :
            LET config == getTeamConfig
                members == Get(config).team.members
                index == findIndex(members, email)
            IN  IF config = None
                    THEN Rejected("remove", Some(email), "not configured")
                ELSE IF index = 0
                    THEN Rejected("remove", Some(email), "not found")
                ELSE Saved("remove", Some(email), "removed",
                           [Get(config) EXCEPT !.team.members = splice(members, index)])

\* ado team list
TeamList ==
    /\ ~Analyzing
    /\ IF getTeamConfig = None
          THEN Rejected("list", None, "not configured")
          ELSE Rejected("list", None, "listed")

\* ado team config [--set key=value]
TeamConfig ==
    /\ ~Analyzing
    /\ \E set \in SetInputs :
            LET config == getTeamConfig
                parts == split(Get(set), "=")
                key == join(parts[1])
                value == IF Len(parts) >= 2 THEN Some(parts[2]) ELSE None
                numValue == parseInt(Get(value))
            IN  IF config = None
                    THEN Rejected("config", set, "not configured")
                ELSE IF set = None \/ Get(set) = <<>>
                    THEN Rejected("config", set, "shown")
                ELSE IF key = "" \/ value = None
                    THEN Rejected("config", set, "invalid format")
                ELSE IF numValue = None
                    THEN Rejected("config", set, "not a number")
                ELSE IF keyIn(key, Get(config).thresholds)
                    THEN Saved("config", set, "set",
                               [Get(config) EXCEPT
                                   !.thresholds = assign(@, key, Get(numValue))])
                ELSE Rejected("config", set, "unknown threshold")

InitTeam ==
    InitWith(<<>>, <<>>, getDefaultThresholds, getDefaultStateCategories)

NextTeam ==
    \/ TeamStatus
    \/ TeamStatusReport
    \/ TeamInit
    \/ TeamAdd
    \/ TeamRemove
    \/ TeamList
    \/ TeamConfig

SpecTeam == InitTeam /\ [][NextTeam]_vars

----------------------------------------------------------------------------
(* Vocabulary of the properties *)

Ok == result.status = "ok"
Report == result.report
Score == Report.summary.healthScore

\* the completion predicate as the specification words it
Completed(wi) ==
    /\ wi.state /= None
    /\ toLowerCase(Get(wi.state)) \in
        {toLowerCase(stateCategories.completed[i]) : i \in 1..Len(stateCategories.completed)}

Blocked(wi) ==
    /\ wi.state /= None
    /\ toLowerCase(Get(wi.state)) \in
        {toLowerCase(stateCategories.blocked[i]) : i \in 1..Len(stateCategories.blocked)}

HasPriority(wi) == wi.priority /= None
Age(wi, now) == now - wi.changedDate

\* the instants at which a `new Date()` of the last run may have been read
RunInstants == {t \in ClockValues : Report.generatedAt <= t /\ t <= clock}

AlertsOf(cat, sev) ==
    {k \in 1..Len(Report.alerts) :
        Report.alerts[k].category = cat /\ Report.alerts[k].severity = sev}

AlertsOfCategory(cat) ==
    {k \in 1..Len(Report.alerts) : Report.alerts[k].category = cat}

ListOf(k) == Get(Report.alerts[k].workItems)

\* positions of item wi in the list of alert k
Occurrences(k, wi) == {n \in 1..Len(ListOf(k)) : ListOf(k)[n] = wi}

InAlert(k, wi) == Occurrences(k, wi) /= {}

NoDuplicates(s) == \A i, j \in 1..Len(s) : i /= j => s[i] /= s[j]

----------------------------------------------------------------------------
(* Properties *)

\* C1: the health score of every report is an integer from 0 to 100.
HealthScoreInRange == Ok => Score \in 0..100

\* a report whose deductions exceed 100 points
HealthScoreClampedReached ==
    /\ Ok
    /\ scoreAfter(Report.alerts, Len(Report.alerts)) < 0
    /\ Score = 0

\* C2: the health score is max(0, min(100, 100 - D)), D the sum over the
\* alerts of min(15, 5n) for `alert`, min(10, 2n) for `warning`, min(5, n) for
\* `info`, n the length of the alert's item list or 1 without a list.
ClaimedCount(a) == IF a.workItems = None THEN 1 ELSE Len(Get(a.workItems))
ClaimedDeduction(a) ==
    IF a.severity = "alert" THEN Min(15, 5 * ClaimedCount(a))
    ELSE IF a.severity = "warning" THEN Min(10, 2 * ClaimedCount(a))
    ELSE Min(5, ClaimedCount(a))
ClaimedDeductions ==
    SumSeq([k \in 1..Len(Report.alerts) |-> ClaimedDeduction(Report.alerts[k])])

HealthScoreIsCappedSum ==
    Ok => Score = Max(0, Min(100, 100 - ClaimedDeductions))

\* a report with a capped `alert`, a capped `warning` and a list-less alert
HealthScoreCapsReached ==
    /\ Ok
    /\ \E k \in 1..Len(Report.alerts) :
          /\ Report.alerts[k].severity = "alert"
          /\ ClaimedCount(Report.alerts[k]) > 3
    /\ \E k \in 1..Len(Report.alerts) :
          /\ Report.alerts[k].severity = "warning"
          /\ ClaimedCount(Report.alerts[k]) > 5
    /\ \E k \in 1..Len(Report.alerts) : Report.alerts[k].workItems = None
    /\ Score > 0

\* C3: a completed item (state case-insensitively in the completed category)
\* is in no stale alert, not in the high-priority alert, not in the unassigned
\* list, not counted by the workload rule and not counted in activeItems, and
\* activeItems is the number of items that are not completed.
CompletionConsistent ==
    Ok =>
        /\ \A i \in 1..Len(workItems) :
              Completed(workItems[i]) =>
                /\ \A k \in AlertsOfCategory("stale") \cup AlertsOfCategory("high-priority")
                       \cup AlertsOfCategory("unassigned") : ~InAlert(k, workItems[i])
                /\ ~\E n \in 1..Len(Report.unassignedItems) :
                       Report.unassignedItems[n] = workItems[i]
        /\ result.memberCounts =
              memberCounts(SelectSeq(workItems, LAMBDA wi : ~Completed(wi)), team.members)
        /\ Report.summary.activeItems =
              Cardinality({i \in 1..Len(workItems) : ~Completed(workItems[i])})

\* a completed item, in another case than the category spells it, old enough
\* to be stale and at risk, next to an open item that is reported stale
CompletionConsistentReached ==
    /\ Ok
    /\ \E i \in 1..Len(workItems) :
          /\ Completed(workItems[i])
          /\ ~\E n \in 1..Len(stateCategories.completed) :
                Get(workItems[i].state) = stateCategories.completed[n]
          /\ workItems[i].priority = Some(2)
          /\ workItems[i].changedDate = Old
    /\ AlertsOfCategory("stale") /= {}
    /\ Report.summary.activeItems = 1

\* C4 as claimed: two runs over identical inputs yield reports identical in
\* every field except generatedAt.
WithoutGeneratedAt(r) == [r EXCEPT !.generatedAt = 0]

RepeatedRunSameReport ==
    (prev.status = "ok" /\ Ok) =>
        WithoutGeneratedAt(prev.report) = WithoutGeneratedAt(Report)

\* C4 as amended: two runs over identical inputs agree on every field that is
\* not computed from the current time (team, team size, active item count,
\* workload and unassigned alerts, workload distribution, unassigned list),
\* and on the whole report when the clock did not advance between the start
\* of the first run and the end of the second.
TimelessAlerts(r) ==
    SelectSeq(r.alerts, LAMBDA a : a.category \in {"workload", "unassigned"})

RepeatedRunSameTimelessFields ==
    (prev.status = "ok" /\ Ok) =>
        /\ prev.report.team = Report.team
        /\ prev.report.summary.teamSize = Report.summary.teamSize
        /\ prev.report.summary.activeItems = Report.summary.activeItems
        /\ TimelessAlerts(prev.report) = TimelessAlerts(Report)
        /\ prev.report.workloadDistribution = Report.workloadDistribution
        /\ prev.report.unassignedItems = Report.unassignedItems
        /\ prev.report.generatedAt = clock => prev.report = Report

\* a second run at the instant of the first, reporting alerts
RepeatedRunReached ==
    /\ prev.status = "ok"
    /\ Ok
    /\ prev.report.generatedAt = clock
    /\ Report.unassignedItems /= <<>>
    /\ AlertsOfCategory("stale") /= {}

\* C5: for every member the count of the workload rule equals the `total` of
\* the member's distribution entry; the entry has status `alert` exactly when
\* a `warning` workload alert names the member, and `warning` exactly when an
\* `info` workload alert names the member.
NamedBy(sev, member) ==
    \E k \in AlertsOf("workload", sev) : Report.alerts[k].member = Some(member)

WorkloadCountsAgree ==
    Ok =>
        \A n \in 1..Len(Report.workloadDistribution) :
            LET d == Report.workloadDistribution[n]
            IN  /\ result.memberCounts[toLowerCase(d.member.email)] = d.total
                /\ d.status = "alert" <=> NamedBy("warning", d.member)
                /\ d.status = "warning" <=> NamedBy("info", d.member)

\* C6: an open item whose assignee's unique name is no member's email and
\* whose display name case-insensitively equals an alias of member M is
\* counted for M by the workload rule and is in M's distribution entry.
RemoveAt(s, i) == SubSeq(s, 1, i - 1) \o SubSeq(s, i + 1, Len(s))

MatchesByAliasOnly(wi, member) ==
    /\ wi.assignedTo /= None
    /\ \A j \in 1..Len(team.members) :
          ~StrictEq(toLowerCaseOpt(Get(wi.assignedTo).uniqueName),
                    toLowerCase(team.members[j].email))
    /\ Get(wi.assignedTo).displayName /= None
    /\ member.aliases /= None
    /\ \E n \in 1..Len(Get(member.aliases)) :
          toLowerCase(Get(Get(wi.assignedTo).displayName))
              = toLowerCase(Get(member.aliases)[n])

EntryOf(member) ==
    Report.workloadDistribution[
        CHOOSE n \in 1..Len(Report.workloadDistribution) :
            Report.workloadDistribution[n].member = member]

AliasMatchAttributed ==
    Ok =>
        \A i \in 1..Len(workItems), j \in 1..Len(team.members) :
            (~Completed(workItems[i]) /\ MatchesByAliasOnly(workItems[i], team.members[j])) =>
                /\ \E n \in 1..Len(EntryOf(team.members[j]).items) :
                      EntryOf(team.members[j]).items[n] = workItems[i]
                /\ result.memberCounts[toLowerCase(team.members[j].email)] =
                      memberCounts(RemoveAt(workItems, i),
                                   team.members)[toLowerCase(team.members[j].email)] + 1

\* C7: the workload distribution has one entry per roster member, in
\* descending order of total, entries of equal total in roster order.
RosterIndex(member) == CHOOSE j \in 1..Len(team.members) : team.members[j] = member

DistributionSortedStable ==
    Ok =>
        LET d == Report.workloadDistribution
        IN  /\ Len(d) = Len(team.members)
            /\ \A j \in 1..Len(team.members) :
                  Cardinality({n \in 1..Len(d) : d[n].member = team.members[j]}) = 1
            /\ \A m, n \in 1..Len(d) :
                  m < n =>
                    /\ d[m].total >= d[n].total
                    /\ d[m].total = d[n].total =>
                          RosterIndex(d[m].member) < RosterIndex(d[n].member)

\* a distribution the sort has reordered
DistributionReordered ==
    /\ Ok
    /\ Len(team.members) >= 2
    /\ Report.workloadDistribution[1].member /= team.members[1]

\* C8: an item is stale iff it is not completed and its last change is more
\* than staleDays days ago; a stale item is in exactly one stale alert, the
\* `alert` one when its priority is <= 2, else (priority > 2 or missing) the
\* `warning` one; at most one stale alert per severity, none with an empty list.
Stale(wi, now) == ~Completed(wi) /\ Age(wi, now) > thresholds.staleDays * MsPerDay
HighPriority(wi) == HasPriority(wi) /\ Get(wi.priority) <= 2

Partitioned(cat, now, Concerned(_, _), Severe(_, _)) ==
    /\ Cardinality(AlertsOf(cat, "alert")) <= 1
    /\ Cardinality(AlertsOf(cat, "warning")) <= 1
    /\ AlertsOf(cat, "info") = {}
    /\ \A k \in AlertsOfCategory(cat) :
          /\ Report.alerts[k].workItems /= None
          /\ ListOf(k) /= <<>>
          /\ \A n \in 1..Len(ListOf(k)) :
                \E i \in 1..Len(workItems) : workItems[i] = ListOf(k)[n]
    /\ \A i \in 1..Len(workItems) :
          LET wi == workItems[i]
          IN  /\ (Concerned(wi, now) /\ Severe(wi, now)) <=>
                    \E k \in AlertsOf(cat, "alert") : InAlert(k, wi)
              /\ (Concerned(wi, now) /\ ~Severe(wi, now)) <=>
                    \E k \in AlertsOf(cat, "warning") : InAlert(k, wi)
              /\ \A k \in AlertsOfCategory(cat) : Cardinality(Occurrences(k, wi)) <= 1

StaleDetection ==
    Ok => \E now \in RunInstants :
            Partitioned("stale", now, Stale, LAMBDA wi, t : HighPriority(wi))

\* both stale alerts, the `warning` one listing an item without priority
StaleDetectionReached ==
    /\ Ok
    /\ AlertsOf("stale", "alert") /= {}
    /\ \E k \in AlertsOf("stale", "warning") :
          \E n \in 1..Len(ListOf(k)) : ListOf(k)[n].priority = None

\* C9: an item whose state is case-insensitively in the blocked category is in
\* exactly one blocked alert, the `alert` one when its last change is more than
\* 7 days ago, else the `warning` one; no other item is in either, whatever the
\* configured thresholds.
BlockedDetection ==
    Ok => \E now \in RunInstants :
            Partitioned("blocked", now, LAMBDA wi, t : Blocked(wi),
                        LAMBDA wi, t : Age(wi, t) > 7 * MsPerDay)

\* both blocked alerts under a stale threshold that is not 7 days, the
\* `warning` one listing an item changed exactly 7 days ago
BlockedDetectionReached ==
    /\ Ok
    /\ thresholds.staleDays /= 7
    /\ AlertsOf("blocked", "alert") /= {}
    /\ \E k \in AlertsOf("blocked", "warning") :
          \E n \in 1..Len(ListOf(k)) : Age(ListOf(k)[n], clock) = 7 * MsPerDay

\* C10: at most one high-priority alert, of severity `alert`, listing exactly
\* the items that are not completed, have a priority <= 2 and were changed
\* more than highPriorityDays days ago; none when there is no such item; an
\* item without priority is never listed.
AtRisk(wi, now) ==
    /\ ~Completed(wi)
    /\ HighPriority(wi)
    /\ Age(wi, now) > thresholds.highPriorityDays * MsPerDay

HighPriorityAtRisk ==
    Ok => \E now \in RunInstants :
            LET expected == SelectSeq(workItems, LAMBDA wi : AtRisk(wi, now))
            IN  IF expected = <<>>
                    THEN AlertsOfCategory("high-priority") = {}
                    ELSE /\ Cardinality(AlertsOfCategory("high-priority")) = 1
                         /\ \A k \in AlertsOfCategory("high-priority") :
                               /\ Report.alerts[k].severity = "alert"
                               /\ Report.alerts[k].workItems = Some(expected)

\* a high-priority alert next to an old open item without priority
HighPriorityAtRiskReached ==
    /\ Ok
    /\ AlertsOfCategory("high-priority") /= {}
    /\ \E i \in 1..Len(workItems) :
          /\ workItems[i].priority = None
          /\ ~Completed(workItems[i])
          /\ workItems[i].changedDate = Old

\* C11 as claimed: at most one workload alert per member, `warning` iff the
\* member's count is above maxItemsPerPerson, otherwise `info` iff it is below
\* minItemsPerPerson, otherwise none; and a count equal to maxItemsPerPerson
\* or to minItemsPerPerson produces no alert, whatever the thresholds.
WorkloadAlertsNaming(member) ==
    {k \in AlertsOfCategory("workload") : Report.alerts[k].member = Some(member)}

CountOf(member) == result.memberCounts[toLowerCase(member.email)]

WorkloadAlertPerMember ==
    Ok =>
        \A j \in 1..Len(team.members) :
            LET member == team.members[j]
                count == CountOf(member)
            IN  /\ Cardinality(WorkloadAlertsNaming(member)) <= 1
                /\ NamedBy("warning", member) <=> count > thresholds.maxItemsPerPerson
                /\ NamedBy("info", member) <=>
                      /\ ~(count > thresholds.maxItemsPerPerson)
                      /\ count < thresholds.minItemsPerPerson

WorkloadAlertNoneAtThreshold ==
    /\ WorkloadAlertPerMember
    /\ Ok =>
        \A j \in 1..Len(team.members) :
            CountOf(team.members[j]) \in
                    {thresholds.maxItemsPerPerson, thresholds.minItemsPerPerson}
                => WorkloadAlertsNaming(team.members[j]) = {}

\* C11 as amended: at most one workload alert per member, `warning` iff the
\* member's count is above maxItemsPerPerson, otherwise `info` iff it is below
\* minItemsPerPerson, otherwise none; a count equal to maxItemsPerPerson gives
\* no `warning` and a count equal to minItemsPerPerson gives no `info`, and
\* neither gives any alert when minItemsPerPerson <= maxItemsPerPerson.
WorkloadAlertStrictThresholds ==
    /\ WorkloadAlertPerMember
    /\ Ok =>
        \A j \in 1..Len(team.members) :
            LET member == team.members[j]
                count == CountOf(member)
            IN  /\ count = thresholds.maxItemsPerPerson => ~NamedBy("warning", member)
                /\ count = thresholds.minItemsPerPerson => ~NamedBy("info", member)
                /\ (/\ thresholds.minItemsPerPerson <= thresholds.maxItemsPerPerson
                    /\ count \in {thresholds.maxItemsPerPerson,
                                  thresholds.minItemsPerPerson})
                      => WorkloadAlertsNaming(member) = {}

\* minItemsPerPerson above maxItemsPerPerson: a member whose count equals
\* maxItemsPerPerson gets an `info`, next to a member above it with a `warning`
WorkloadAlertAtThresholdReached ==
    /\ Ok
    /\ thresholds.minItemsPerPerson > thresholds.maxItemsPerPerson
    /\ \E j \in 1..Len(team.members) :
          /\ CountOf(team.members[j]) = thresholds.maxItemsPerPerson
          /\ NamedBy("info", team.members[j])

\* C12: unassignedItems is exactly the items without assignee that are not
\* completed, in input order; when it is non-empty the alerts hold exactly one
\* `unassigned` alert, of severity `alert`, carrying that list, and when it is
\* empty they hold no `unassigned` alert.
Unassigned(wi) == wi.assignedTo = None /\ ~Completed(wi)

UnassignedListed ==
    Ok =>
        LET expected == SelectSeq(workItems, Unassigned)
        IN  /\ Report.unassignedItems = expected
            /\ IF expected = <<>>
                  THEN AlertsOfCategory("unassigned") = {}
                  ELSE /\ Cardinality(AlertsOfCategory("unassigned")) = 1
                       /\ \A k \in AlertsOfCategory("unassigned") :
                             /\ Report.alerts[k].severity = "alert"
                             /\ Report.alerts[k].workItems = Some(expected)

\* an open item without assignee is listed, next to a completed item without
\* assignee that is not
UnassignedListedReached ==
    /\ Ok
    /\ Len(Report.unassignedItems) = 1
    /\ AlertsOfCategory("unassigned") /= {}
    /\ \E i \in 1..Len(workItems) :
          workItems[i].assignedTo = None /\ Completed(workItems[i])

\* C13: analyzeTeamHealth raises no error for any input, the items with
\* missing priority, assignee, assignee names or state and the items in a
\* state of no category included: every call returns a report.
AnalyzeNeverThrows == result /= Threw

\* C14: with no work item and an empty roster the call returns a report with
\* score 100, no alert, an empty workload distribution, an empty unassigned
\* list and all activity counts 0; and in every report the score is 100
\* exactly when there is no alert.
NoActivity == [updated |-> 0, closed |-> 0, created |-> 0]

EmptyInput == workItems = <<>> /\ team.members = <<>>

EmptyInputHealthy ==
    /\ Ok => (Score = 100 <=> Report.alerts = <<>>)
    /\ (EmptyInput /\ result /= NoResult) =>
          /\ Ok
          /\ Score = 100
          /\ Report.alerts = <<>>
          /\ Report.workloadDistribution = <<>>
          /\ Report.unassignedItems = <<>>
          /\ Report.recentActivity = [last24h |-> NoActivity, last7d |-> NoActivity]

\* the report of the empty input
EmptyInputReached == Ok /\ EmptyInput /\ Report.summary.healthScore = 100

\* C15: a call of analyzeTeamHealth leaves its inputs unchanged: the work
\* item list has the same items with the same fields in the same order after
\* the call, and the team config echoed in the report has the members the
\* roster had before the call, in the same order.
InputsUnchanged ==
    [][/\ workItems' = workItems
       /\ team' = team
       /\ result'.status = "ok" => result'.report.team = team]_vars

\* a report whose distribution is sorted into another order than the roster,
\* which it echoes as it was
InputsUnchangedReached ==
    /\ Ok
    /\ prev.status = "ok"
    /\ workItems /= <<>>
    /\ Len(team.members) = 2
    /\ Report.workloadDistribution[1].member = team.members[2]
    /\ Report.workloadDistribution[1].total > Report.workloadDistribution[2].total
    /\ Report.team = team

\* C16: rendering never alters the report (formatReport and formatJsonReport
\* leave every field of it as it was); the rendering of an `alert`-severity
\* alert with n items prints the first min(5, n) items and an "... and n-5
\* more" line iff n > 5; the unassigned section prints the first min(5, n)
\* items unless `detail` is set, in which case it prints all n.
IdsOf(items) == [i \in 1..Len(items) |-> items[i].id]

Printed(section, kind, n) ==
    SelectSeq(output.lines,
              LAMBDA l : l.section = section /\ l.kind = kind /\ l.alert = n)

PrintedIds(section, n) ==
    LET lines == Printed(section, "item", n)
    IN  [i \in 1..Len(lines) |-> lines[i].values[1]]

FirstFive(items) == [i \in 1..Min(5, Len(items)) |-> items[i]]

AlertSeverityAlerts == SelectSeq(Report.alerts, LAMBDA a : a.severity = "alert")

RenderingCondensed ==
    output.format = "text" =>
        /\ \A n \in 1..Len(AlertSeverityAlerts) :
              LET items == IF AlertSeverityAlerts[n].workItems = None THEN <<>>
                           ELSE Get(AlertSeverityAlerts[n].workItems)
              IN  /\ PrintedIds("alerts", n) = IdsOf(FirstFive(items))
                  /\ Printed("alerts", "more", n) =
                        IF Len(items) > 5
                            THEN <<Line("alerts", "more", n, <<Len(items) - 5>>)>>
                            ELSE <<>>
        /\ PrintedIds("unassigned", 0) =
              IF output.detail = Some(TRUE)
                  THEN IdsOf(Report.unassignedItems)
                  ELSE IdsOf(FirstFive(Report.unassignedItems))

RenderingLeavesReport ==
    /\ []RenderingCondensed
    /\ [][output' /= output =>
            /\ result' = result
            /\ workItems' = workItems
            /\ team' = team]_vars

\* a condensed rendering of a report with an alert of six items, cut to five
\* and a "1 more" line, and an unassigned list of ten
RenderingCondensedReached ==
    /\ output.format = "text"
    /\ output.detail = None
    /\ \E n \in 1..Len(AlertSeverityAlerts) :
          /\ Len(Get(AlertSeverityAlerts[n].workItems)) = 6
          /\ Len(PrintedIds("alerts", n)) = 5
          /\ Printed("alerts", "more", n) /= <<>>
    /\ Len(Report.unassignedItems) = 10
    /\ Len(PrintedIds("unassigned", 0)) = 5

\* C17: matchesMember(assignee, member) is true iff the assignee's unique
\* name equals the member's email, or the display name equals the member's
\* name, or the unique name or the display name equals one of the member's
\* aliases, each ignoring case; it is false for every other pair, a member
\* without alias list included.  Seen in the `items` of the member's
\* distribution entry, which holds the work items whose assignee matches.
Fold(c) == IF c \in DOMAIN UpperToLower THEN UpperToLower[c] ELSE c

EqualIgnoringCase(o, s) ==
    /\ o /= None
    /\ Len(Get(o)) = Len(s)
    /\ \A i \in 1..Len(s) : Fold(Get(o)[i]) = Fold(s[i])

AliasesOf(member) ==
    IF member.aliases = None THEN {}
    ELSE {Get(member.aliases)[i] : i \in 1..Len(Get(member.aliases))}

ClaimedMatch(assignee, member) ==
    \/ EqualIgnoringCase(assignee.uniqueName, member.email)
    \/ EqualIgnoringCase(assignee.displayName, member.name)
    \/ \E alias \in AliasesOf(member) :
          \/ EqualIgnoringCase(assignee.uniqueName, alias)
          \/ EqualIgnoringCase(assignee.displayName, alias)

MemberMatching ==
    Ok =>
        \A n \in 1..Len(Report.workloadDistribution) :
            LET d == Report.workloadDistribution[n]
            IN  \A i \in 1..Len(workItems) :
                    workItems[i].assignedTo /= None =>
                        (Includes(d.items, workItems[i])
                            <=> ClaimedMatch(Get(workItems[i].assignedTo), d.member))

\* an item matched to a member only by an alias that its unique name spells
\* in another case
MemberMatchingReached ==
    /\ Ok
    /\ \E n \in 1..Len(Report.workloadDistribution), i \in 1..Len(workItems) :
          LET d == Report.workloadDistribution[n]
              assignee == Get(workItems[i].assignedTo)
          IN  /\ workItems[i].assignedTo /= None
              /\ Includes(d.items, workItems[i])
              /\ ~EqualIgnoringCase(assignee.uniqueName, d.member.email)
              /\ ~EqualIgnoringCase(assignee.displayName, d.member.name)
              /\ \A alias \in AliasesOf(d.member) :
                    ~EqualIgnoringCase(assignee.displayName, alias)
              /\ assignee.uniqueName \notin {Some(alias) : alias \in AliasesOf(d.member)}

\* C18: in the distribution entry of a member, `items` is every work item
\* whose assignee matches the member, the completed ones included; `active`
\* and `blocked` count those in a state of the active and of the blocked
\* category, `total` those that are not completed; `status` is `alert` when
\* total > maxItemsPerPerson, else `warning` when total < minItemsPerPerson,
\* else `ok`.  An item in a state of no category counts in `total` only.
Active(wi) ==
    /\ wi.state /= None
    /\ toLowerCase(Get(wi.state)) \in
        {toLowerCase(stateCategories.active[i]) : i \in 1..Len(stateCategories.active)}

MatchedBy(member) ==
    SelectSeq(workItems, LAMBDA wi :
        wi.assignedTo /= None /\ ClaimedMatch(Get(wi.assignedTo), member))

HowMany(items, P(_)) == Cardinality({i \in 1..Len(items) : P(items[i])})

Open(wi) == ~Completed(wi)
Uncategorized(wi) == ~Active(wi) /\ ~Blocked(wi) /\ ~Completed(wi)

DistributionEntryFields ==
    Ok =>
        \A n \in 1..Len(Report.workloadDistribution) :
            LET d == Report.workloadDistribution[n]
                matched == MatchedBy(d.member)
            IN  /\ d.items = matched
                /\ d.active = HowMany(matched, Active)
                /\ d.blocked = HowMany(matched, Blocked)
                /\ d.total = HowMany(matched, Open)
                /\ d.status = IF d.total > thresholds.maxItemsPerPerson THEN "alert"
                              ELSE IF d.total < thresholds.minItemsPerPerson THEN "warning"
                              ELSE "ok"
                /\ d.total >= HowMany(matched, Uncategorized)

\* a member whose only item is in a state of no category: total 1, active 0,
\* blocked 0
DistributionEntryFieldsReached ==
    /\ Ok
    /\ \E n \in 1..Len(Report.workloadDistribution) :
          LET d == Report.workloadDistribution[n]
          IN  /\ Len(d.items) = 1
              /\ Uncategorized(d.items[1])
              /\ d.total = 1
              /\ d.active = 0
              /\ d.blocked = 0

\* C19: the alerts of a report are in detection order: the stale alerts
\* (`alert` before `warning`), then the blocked alerts (`alert` before
\* `warning`), then the high-priority alert, then the workload alerts in the
\* order of the roster, then the unassigned alert.
DetectionRank(alert) ==
    CASE alert.category = "stale" /\ alert.severity = "alert" -> 1
      [] alert.category = "stale" /\ alert.severity = "warning" -> 2
      [] alert.category = "blocked" /\ alert.severity = "alert" -> 3
      [] alert.category = "blocked" /\ alert.severity = "warning" -> 4
      [] alert.category = "high-priority" -> 5
      [] alert.category = "workload" -> 6
      [] alert.category = "unassigned" -> 7
      [] OTHER -> 0

AlertsInDetectionOrder ==
    Ok =>
        \A k, l \in 1..Len(Report.alerts) :
            k < l =>
                /\ DetectionRank(Report.alerts[k]) > 0
                /\ DetectionRank(Report.alerts[k]) <= DetectionRank(Report.alerts[l])
                /\ (Report.alerts[k].category = "workload"
                       /\ Report.alerts[l].category = "workload")
                      => RosterIndex(Get(Report.alerts[k].member))
                            < RosterIndex(Get(Report.alerts[l].member))

\* a report holding an alert of each of the seven kinds, two workload alerts
\* among them
AlertsInDetectionOrderReached ==
    /\ Ok
    /\ {DetectionRank(Report.alerts[k]) : k \in 1..Len(Report.alerts)} = 1..7
    /\ Cardinality(AlertsOfCategory("workload")) >= 2

\* C20: the health score does not depend on the order of the alerts:
\* calculateHealthScore returns the score of the report for every permutation
\* of the report's alerts (all permutations of up to four alerts; every
\* exchange of two alerts, the reversal and every rotation of longer ones).
Reorder(s, p) == [i \in 1..Len(s) |-> s[p[i]]]

Exchange(n, i, j) == [k \in 1..n |-> IF k = i THEN j ELSE IF k = j THEN i ELSE k]
Rotation(n, r) == [k \in 1..n |-> ((k + r - 1) % n) + 1]
Reversal(n) == [k \in 1..n |-> n + 1 - k]

Reorderings(n) ==
    IF n <= 4 THEN Permutations(1..n)
    ELSE {Exchange(n, i, j) : i, j \in 1..n}
            \cup {Rotation(n, r) : r \in 1..n}
            \cup {Reversal(n)}

ScoreOrderIndependent ==
    Ok =>
        \A p \in Reorderings(Len(Report.alerts)) :
            calculateHealthScore(Reorder(Report.alerts, p)) = Score

\* alerts of different deductions, in a report whose score is not clamped
ScoreOrderIndependentReached ==
    /\ Ok
    /\ Len(Report.alerts) >= 3
    /\ deduction(Report.alerts[1]) /= deduction(Report.alerts[Len(Report.alerts)])
    /\ Score > 0
    /\ Score < 100

\* C21: the activity summary counts over all work items, whatever their
\* completion and assignment: in each window (24 hours, 7 days before the
\* instant the summary is computed at) `updated` counts the items changed at
\* or after the window start, `created` those created at or after it, and
\* `closed` the updated ones that are completed; an item inside the 24-hour
\* window is counted in both windows.
ClaimedCounts(since) ==
    [updated |-> Cardinality({i \in 1..Len(workItems) : workItems[i].changedDate >= since}),
     closed  |-> Cardinality({i \in 1..Len(workItems) :
                    workItems[i].changedDate >= since /\ Completed(workItems[i])}),
     created |-> Cardinality({i \in 1..Len(workItems) : workItems[i].createdDate >= since})]

ActivityCounts ==
    Ok =>
        /\ Report.recentActivity.last24h = ClaimedCounts(clock - MsPerDay)
        /\ Report.recentActivity.last7d = ClaimedCounts(clock - 7 * MsPerDay)
        /\ \A i \in 1..Len(workItems) :
              workItems[i].changedDate >= clock - MsPerDay
                 => /\ Report.recentActivity.last24h.updated >= 1
                    /\ Report.recentActivity.last7d.updated >= 1

\* a completed, assigned item changed exactly 24 hours ago and created
\* exactly seven days ago is counted as updated and closed in both windows
\* and as created in the seven-day window only
ActivityCountsReached ==
    /\ Ok
    /\ Len(workItems) = 1
    /\ workItems[1].assignedTo /= None
    /\ Completed(workItems[1])
    /\ workItems[1].changedDate = clock - MsPerDay
    /\ workItems[1].createdDate = clock - 7 * MsPerDay
    /\ Report.recentActivity.last24h = [updated |-> 1, closed |-> 1, created |-> 0]
    /\ Report.recentActivity.last7d = [updated |-> 1, closed |-> 1, created |-> 1]

\* C25 as claimed: no alert of a report lists a completed work item, for
\* every configuration of the state categories, one with a state name in both
\* `blocked` and `completed` included.
Listed(k) ==
    IF Report.alerts[k].workItems = None THEN <<>> ELSE Get(Report.alerts[k].workItems)

ListedIn(category, wi) ==
    \E k \in AlertsOfCategory(category) :
        \E n \in 1..Len(Listed(k)) : Listed(k)[n] = wi

NoAlertListsCompleted ==
    Ok =>
        \A k \in 1..Len(Report.alerts) :
            \A i \in 1..Len(Listed(k)) : ~Completed(Listed(k)[i])

\* C25 as amended: no stale, high-priority or unassigned alert lists a
\* completed work item; a blocked alert lists the items in a blocked state,
\* so it lists a completed item exactly when that item's state is in both
\* `blocked` and `completed`, and none when the two categories share no state.
BlockedAndCompletedShare ==
    \E i \in 1..Len(stateCategories.blocked), j \in 1..Len(stateCategories.completed) :
        toLowerCase(stateCategories.blocked[i]) = toLowerCase(stateCategories.completed[j])

OnlyBlockedAlertsListCompleted ==
    Ok =>
        /\ \A k \in 1..Len(Report.alerts) :
              \A i \in 1..Len(Listed(k)) :
                  Completed(Listed(k)[i]) =>
                      /\ Report.alerts[k].category = "blocked"
                      /\ Blocked(Listed(k)[i])
                      /\ BlockedAndCompletedShare
        /\ \A i \in 1..Len(workItems) :
              (Completed(workItems[i]) /\ Blocked(workItems[i]))
                  => ListedIn("blocked", workItems[i])

\* a completed item, old and of high priority, in a state that is also a
\* blocked state: listed by the blocked alert and by no other
OnlyBlockedAlertsListCompletedReached ==
    /\ Ok
    /\ \E i \in 1..Len(workItems) :
          /\ Completed(workItems[i])
          /\ workItems[i].changedDate = Old
          /\ workItems[i].assignedTo = None
          /\ ListedIn("blocked", workItems[i])
          /\ ~ListedIn("stale", workItems[i])
          /\ ~ListedIn("high-priority", workItems[i])
          /\ ~ListedIn("unassigned", workItems[i])
    /\ AlertsOfCategory("stale") /= {}

\* C26: when highPriorityDays <= staleDays, every item of the high-priority
\* stale alert is also in the high-priority-at-risk alert of the same report,
\* the clock being read by each rule and never going back between them.
StaleHighPriorityAlsoAtRisk ==
    (Ok /\ thresholds.highPriorityDays <= thresholds.staleDays) =>
        \A k \in AlertsOf("stale", "alert") :
            \A n \in 1..Len(Listed(k)) : ListedIn("high-priority", Listed(k)[n])

\* equal thresholds and a clock that advanced between the two rules: the
\* at-risk alert holds the item of the stale alert and one more
StaleHighPriorityAlsoAtRiskReached ==
    /\ Ok
    /\ thresholds.highPriorityDays = thresholds.staleDays
    /\ AlertsOf("stale", "alert") /= {}
    /\ \E i \in 1..Len(workItems) :
          /\ ListedIn("high-priority", workItems[i])
          /\ ~ListedIn("stale", workItems[i])

\* C27: in every activity summary each 24-hour count is at most the matching
\* 7-day count, `closed` is at most `updated` in each window, and `updated`
\* and `created` of each window are at most the number of work items; also
\* for items with times in the future.
ActivityBounds ==
    Ok =>
        LET day == Report.recentActivity.last24h
            week == Report.recentActivity.last7d
        IN  /\ day.updated <= week.updated
            /\ day.closed <= week.closed
            /\ day.created <= week.created
            /\ \A w \in {day, week} :
                  /\ 0 <= w.closed
                  /\ w.closed <= w.updated
                  /\ w.updated <= Len(workItems)
                  /\ 0 <= w.created
                  /\ w.created <= Len(workItems)

\* an item changed in the future next to one changed between one and seven
\* days ago: the 24-hour counts are below the 7-day counts
ActivityBoundsReached ==
    /\ Ok
    /\ \E i \in 1..Len(workItems) : workItems[i].changedDate > clock
    /\ Report.recentActivity.last24h.updated = 1
    /\ Report.recentActivity.last7d.updated = 2
    /\ Report.recentActivity.last24h.closed < Report.recentActivity.last7d.closed

\* C28: when the active, blocked and completed categories are pairwise
\* disjoint, ignoring case, every distribution entry has
\* active + blocked <= total <= number of its items, also when a category
\* lists a state name more than once.
Folded(category) == {toLowerCase(category[i]) : i \in 1..Len(category)}

CategoriesDisjoint ==
    /\ Folded(stateCategories.active) \cap Folded(stateCategories.blocked) = {}
    /\ Folded(stateCategories.active) \cap Folded(stateCategories.completed) = {}
    /\ Folded(stateCategories.blocked) \cap Folded(stateCategories.completed) = {}

DistributionCountsOrdered ==
    (Ok /\ CategoriesDisjoint) =>
        \A n \in 1..Len(Report.workloadDistribution) :
            LET d == Report.workloadDistribution[n]
            IN  /\ d.active + d.blocked <= d.total
                /\ d.total <= Len(d.items)

\* disjoint categories that list their states twice: a member with an active
\* and a blocked item has active 1, blocked 1, total 2
DistributionCountsOrderedReached ==
    /\ Ok
    /\ CategoriesDisjoint
    /\ \E c \in {"active", "blocked", "completed"} :
          Len(stateCategories[c]) > Cardinality(Folded(stateCategories[c]))
    /\ \E n \in 1..Len(Report.workloadDistribution) :
          LET d == Report.workloadDistribution[n]
          IN  d.active = 1 /\ d.blocked = 1 /\ d.total = 2 /\ Len(d.items) = 2

----------------------------------------------------------------------------
(* Team commands *)

\* what `team status` does in every run that finds no stored team config
StopsWithoutConfig ==
    /\ ~last'.fetched
    /\ ~last'.analyzed
    /\ ~last'.saved
    /\ result' = NoResult
    /\ output' = NoOutput
    /\ stored' = None

\* C22 as stated: `team status` run when no team config is stored reports that
\* the team is not configured and stops, with no fetch, no analyzer, no report
\* and no write of the team config.
StatusWithoutConfigNotConfigured ==
    [][(stored = None /\ last'.command = "status")
          => (last'.outcome = "not configured" /\ StopsWithoutConfig)]_vars

\* C22: `team status` run when no team config is stored fetches no work items,
\* constructs no analyzer, produces no report and writes no team config; it
\* reports that the team is not configured unless ensureAuthenticated, which
\* runs before the config is read, has thrown, and then it reports that error.
StatusWithoutConfigStops ==
    [][(stored = None /\ last'.command = "status")
          => (/\ last'.outcome \in {"not configured", "authentication failed"}
              /\ StopsWithoutConfig)]_vars

StatusWithoutConfigReached ==
    /\ stored = None
    /\ last = Done("status", None, "not configured", FALSE, FALSE, FALSE)
    /\ result = NoResult

\* decimal numerals and the numbers they denote
Numerals == {[text |-> <<"0">>, value |-> 0], [text |-> <<"2">>, value |-> 2]}

\* the thresholds other than staleDays
OtherThresholds ==
    {"stuckInStateDays", "maxItemsPerPerson", "minItemsPerPerson", "highPriorityDays"}

\* the status command has constructed its analyzer
StatusAnalyzer == last.command = "status" /\ last.fetched

AnalyzesWithFlag ==
    StatusAnalyzer =>
        /\ stored /= None
        /\ \A name \in OtherThresholds : thresholds[name] = Get(stored).thresholds[name]
        /\ \A n \in Numerals :
              last.argument = Some(n.text) => thresholds.staleDays = n.value
        /\ last.argument = None => thresholds = Get(stored).thresholds

\* C23: `team status --stale-days N` analyses with staleDays = N and with every
\* other threshold equal to the stored value, and leaves the persisted team
\* config unchanged; without the flag the analyzer receives exactly the stored
\* thresholds.
StaleDaysFlagOverrides ==
    /\ []AnalyzesWithFlag
    /\ [][last'.command = "status" => stored' = stored]_vars

StaleDaysFlagOverridesReached ==
    /\ StatusAnalyzer
    /\ last.analyzed
    /\ last.argument = Some(<<"2">>)
    /\ thresholds.staleDays = 2
    /\ Get(stored).thresholds.staleDays = 7
    /\ result /= NoResult

ThresholdNames == OtherThresholds \cup {"staleDays"}

NonNegative(th) == \A name \in ThresholdNames : th[name] \in Nat

\* C24: every threshold in the persisted team config, and every threshold handed
\* to the HealthAnalyzer constructor, is a non-negative integer after any
\* sequence of `team init`, `team config --set key=value` and
\* `team status --stale-days` operations.
ThresholdsNonNegative ==
    /\ stored /= None => NonNegative(Get(stored).thresholds)
    /\ StatusAnalyzer => NonNegative(thresholds)

\* the stored roster
Roster == Get(stored).team.members

DistinctEmails(members) ==
    \A i, j \in 1..Len(members) :
        i /= j => toLowerCase(members[i].email) /= toLowerCase(members[j].email)

OnRoster(email) ==
    \E i \in 1..Len(Roster) : toLowerCase(Roster[i].email) = toLowerCase(email)

\* an optional sign and then digits only
IsNumber(pieces) ==
    LET digits == IF pieces /= <<>> /\ Head(pieces) \in {"+", "-"}
                      THEN Tail(pieces) ELSE pieces
    IN  /\ digits /= <<>>
        /\ \A i \in 1..Len(digits) : digits[i] \in DOMAIN DigitValue

\* the key and the value of a `--set key=value` argument
SetKey(setting) == join(split(setting, "=")[1])
SetValue(setting) == split(setting, "=")[2]

\* the step runs one of the commands that C30 lists as rejected
RejectedCommand ==
    \/ /\ last'.command \in {"add", "remove", "config"}
       /\ stored = None
    \/ /\ last'.command = "add"
       /\ stored /= None
       /\ OnRoster(Get(last'.argument))
    \/ /\ last'.command = "remove"
       /\ stored /= None
       /\ ~OnRoster(Get(last'.argument))
    \/ /\ last'.command = "config"
       /\ stored /= None
       /\ last'.argument /= None
       /\ Len(split(Get(last'.argument), "=")) >= 2
       /\ \/ SetKey(Get(last'.argument)) \notin ThresholdNames
          \/ ~IsNumber(SetValue(Get(last'.argument)))
    \/ /\ last'.command = "init"
       /\ last'.outcome = "aborted"

\* C30: a rejected team command leaves the persisted team config unchanged:
\* `team add` of an email already on the roster, `team remove` of an email not
\* on the roster, `team config --set` with a key that is not one of the five
\* threshold names or with a value that is not a number, `team init` that ends
\* with no member added, and `team add`, `team remove` or `team config` run
\* when no team config exists.
RejectedLeavesConfig ==
    [][RejectedCommand => stored' = stored]_vars

====
